---- MODULE Spec2Model ----
(***************************************************************************)
(* Glyph substitution (GSUB) engine of allsorts: feature resolution and    *)
(* lookup caching, the lookup application loop with its substitution       *)
(* executors, and the default shaping entry point.                         *)
(*                                                                         *)
(* The specifications of this module:                                      *)
(*   SpecBuild  - build_lookups_default / build_lookups /                  *)
(*                build_lookups_custom over bounded LangSys declarations   *)
(*   SpecApply  - gsub_apply_lookups_impl / gsub_apply_lookup, one loop    *)
(*                iteration per step                                       *)
(*   SpecExec   - the same loop on single lookups, for the executors       *)
(*   SpecFinish - strip_joiners and replace_missing_glyphs                 *)
(*   SpecArabic - the joining-state pass of gsub_apply_arabic              *)
(*   SpecForms  - the positional-form lookups of gsub_apply_arabic         *)
(*   SpecStep   - single lookups under the position predicate of a form    *)
(*   SpecFrac   - gsub_apply_lookups_frac, one window per step             *)
(*   SpecCache  - gsub_apply_default calls against one font's LayoutCache  *)
(*   SpecAbort  - the same calls against a font with a failing lookup      *)
(*   SpecRace   - get_lookups_cache_index calls interleaved on one cache   *)
(*   SpecShape  - gsub_apply_default on text of the Arabic script          *)
(*   SpecCustom - gsub_apply_custom, one gsub_apply_lookup call per step   *)
(***************************************************************************)
EXTENDS Integers, Sequences, FiniteSets, TLC

VARIABLES
    \* ---- the layout table
    feature_list,      \* gsub_table.opt_feature_list: records {feature_tag, lookup_indices}
    script_list,       \* gsub_table's script records
    \* ---- SpecBuild: one LangSys and the last feature resolution
    langsys,           \* LangSys: feature indices in declaration order
    bl_call,           \* which resolver ran last, and its argument
    bl_result,         \* what it returned
    \* ---- shared by SpecApply and SpecCache
    glyph_vec,         \* the caller's Vec<RawGlyph<T>>
    overflow_checks,   \* TRUE: usize overflow panics (debug); FALSE: it wraps (release)
    pc,                \* SpecApply: "enter", "loop", "done", "error" or "panic";
                       \* SpecCache: "idle", or the last call's "done", "error", "panic"
    reason,            \* the ParseError or the panic message
    \* ---- SpecApply: gsub_apply_lookups_impl in progress
    lookup_list,       \* the list [(lookup_index, feature_tag)] being applied
    lookup_pos,        \* position in lookup_list of the current gsub_apply_lookup call
    win_start,         \* the argument start
    win_length,        \* the argument length (mut length)
    cursor,            \* the loop variable i
    max_depth,         \* deepest nested context level reached in the current call
    entry_len,         \* glyphs.len() when the current gsub_apply_lookup call began
    entry_length,      \* length when the current gsub_apply_lookup call began
    ideal_length,      \* entry length plus the executor-reported deltas, as an integer
    dist_before,       \* window end minus cursor before the last iteration
    tail,              \* glyphs behind the window when gsub_apply_lookups_impl began
    \* ---- SpecCache: one font's layout cache across calls
    gsub_cache,        \* LayoutCache<GSUB>: supported_features, lookups_index, cached_lookups
    cache_before,      \* gsub_cache as the last call found it
    last_call,         \* the last call: its arguments and what it computed
    fresh,             \* what the last call yields against a newly made cache
    \* ---- one loop iteration of gsub_apply_lookup, seen from outside
    alternate_arg,     \* the argument opt_alternate of gsub_apply_lookup
    prev_glyphs,       \* glyphs before the last loop iteration (or the last whole pass)
    prev_cursor,       \* the loop variable i before the last loop iteration
    prev_length,       \* length before the last loop iteration
    \* ---- SpecArabic: the joining-state pass of gsub_apply_arabic
    previous_i,        \* the local previous_i
    \* ---- SpecRace: get_lookups_cache_index calls in progress on one cache
    calls,             \* per call: its key, its position and its locals
    \* ---- SpecFinish: the last steps of gsub_apply_default
    font_glyphs,       \* the argument num_glyphs
    \* ---- SpecFrac: gsub_apply_lookups_frac in progress
    lookups_frac_arg,  \* the argument lookups_frac (lookup_list holds lookups)
    windows            \* the gsub_apply_lookups_impl calls made so far

buildvars == <<feature_list, langsys, bl_call, bl_result>>
sharedvars == <<glyph_vec, overflow_checks>>
applyvars == <<pc, lookup_list, lookup_pos, win_start, win_length, cursor, reason, max_depth,
               entry_len, entry_length, ideal_length, dist_before, tail>>
cachevars == <<script_list, gsub_cache, cache_before, last_call, fresh>>

itervars == <<alternate_arg, prev_glyphs, prev_cursor, prev_length>>
fracvars == <<lookups_frac_arg, windows>>
passvars == <<previous_i, calls, font_glyphs, fracvars>>

vars == <<buildvars, sharedvars, applyvars, cachevars, itervars, passvars>>

\* ------------------------------------------------------------------------
\* Option<T> and Result<T, E>
\* ------------------------------------------------------------------------
None == <<>>
Some(x) == <<x>>
IsSome(o) == o # <<>>
Unwrap(o) == o[1]

\* `let x = e; body`: body with x bound to the value of e.
Let(e, body(_)) == body(e)

Ok(v) == [ok |-> TRUE, val |-> v]
Err(e) == [ok |-> FALSE, err |-> e]

\* ------------------------------------------------------------------------
\* Feature tags and the feature mask (gsub.rs:970-1039)
\* ------------------------------------------------------------------------

\* GsubFeatureMask: a bit set, modelled as the set of the names of its set bits.
FEATURE_MASKS ==
    << <<"AFRC", "afrc">>, <<"C2SC", "c2sc">>, <<"CALT", "calt">>, <<"CCMP", "ccmp">>,
       <<"CLIG", "clig">>, <<"DLIG", "dlig">>, <<"FRAC", "frac">>, <<"HLIG", "hlig">>,
       <<"LIGA", "liga">>, <<"LNUM", "lnum">>, <<"ONUM", "onum">>, <<"ORDN", "ordn">>,
       <<"PNUM", "pnum">>, <<"RLIG", "rlig">>, <<"SMCP", "smcp">>, <<"TNUM", "tnum">>,
       <<"VRT2_OR_VERT", "vrt2">>, <<"ZERO", "zero">> >>

from_tag(tag) ==
    IF tag \in {"vert", "vrt2"} THEN {"VRT2_OR_VERT"}
    ELSE LET hits == {n \in 1..Len(FEATURE_MASKS) : FEATURE_MASKS[n][2] = tag}
         IN {FEATURE_MASKS[n][1] : n \in hits}

GsubFeatureMask_default == {"CCMP", "RLIG", "CLIG", "LIGA", "CALT"}

\* ------------------------------------------------------------------------
\* Layout table access (crate::layout, consumed interface of spec section 6)
\* ------------------------------------------------------------------------

\* feature-by-index lookup: a feature index outside the feature list is a
\* malformed-data fault.
feature_by_index(flist, feature_index) ==
    IF feature_index < Len(flist) THEN Ok(flist[feature_index + 1]) ELSE Err("BadIndex")

\* The first feature the LangSys declares with the given tag, walking the
\* LangSys's feature indices in declaration order.
RECURSIVE find_langsys_feature_from(_, _, _, _)
find_langsys_feature_from(flist, ls, feature_tag, n) ==
    IF n > Len(ls) THEN Ok(None)
    ELSE LET r == feature_by_index(flist, ls[n])
         IN IF ~r.ok THEN r
            ELSE IF r.val.feature_tag = feature_tag THEN Ok(Some(r.val))
            ELSE find_langsys_feature_from(flist, ls, feature_tag, n + 1)

find_langsys_feature(flist, ls, feature_tag) ==
    find_langsys_feature_from(flist, ls, feature_tag, 1)

\* ------------------------------------------------------------------------
\* BTreeMap<usize, u32> as the strictly key-ascending sequence of its entries
\* ------------------------------------------------------------------------

\* A Vec::push in place of the map insert: no ordering, no de-duplication.
BTreeInsert_push(m, k, v) == Append(m, <<k, v>>)

\* entry(k).or_insert(v) in place of insert: an existing entry keeps its value.
BTreeInsert_keep(m, k, v) ==
    IF \E p \in 1..Len(m) : m[p][1] = k
    THEN m
    ELSE SelectSeq(m, LAMBDA e : e[1] < k) \o << <<k, v>> >> \o SelectSeq(m, LAMBDA e : e[1] > k)

\* lookups.insert(k, v): a present key has its value replaced, an absent key
\* is entered at its place in key order.
BTreeInsert(m, k, v) ==
    SelectSeq(m, LAMBDA e : e[1] < k) \o << <<k, v>> >> \o SelectSeq(m, LAMBDA e : e[1] > k)

\* for lookup_index in &feature_table.lookup_indices { lookups.insert(..) }
RECURSIVE insert_lookup_indices(_, _, _, _)
insert_lookup_indices(m, lookup_indices, feature_tag, n) ==
    IF n > Len(lookup_indices) THEN m
    ELSE insert_lookup_indices(BTreeInsert(m, lookup_indices[n], feature_tag),
                               lookup_indices, feature_tag, n + 1)

\* ------------------------------------------------------------------------
\* Feature resolution (gsub.rs:775-850)
\* ------------------------------------------------------------------------

\* build_lookups: the loop over feature_tags, from position n with map m.
RECURSIVE build_lookups_from(_, _, _, _, _)
build_lookups_from(flist, ls, feature_tags, n, m) ==
    IF n > Len(feature_tags) THEN Ok(m)
    ELSE LET r == find_langsys_feature(flist, ls, feature_tags[n])
         IN IF ~r.ok THEN r
            ELSE build_lookups_from(flist, ls, feature_tags, n + 1,
                    IF IsSome(r.val)
                    THEN insert_lookup_indices(m, Unwrap(r.val).lookup_indices, feature_tags[n], 1)
                    ELSE m)

build_lookups(flist, ls, feature_tags) ==
    build_lookups_from(flist, ls, feature_tags, 1, <<>>)

\* build_lookups_custom: the same loop over FeatureInfo records; the result
\* stays a map (here: its entries in key order).
RECURSIVE feature_tags_of(_)
feature_tags_of(features_list) ==
    IF features_list = <<>> THEN <<>>
    ELSE <<Head(features_list).feature_tag>> \o feature_tags_of(Tail(features_list))

build_lookups_custom(flist, ls, features_list) ==
    build_lookups_from(flist, ls, feature_tags_of(features_list), 1, <<>>)

\* build_lookups_default: the loop over FEATURE_MASKS, from position n.
RECURSIVE build_lookups_default_from(_, _, _, _, _)
build_lookups_default_from(flist, ls, feature_masks, n, m) ==
    IF n > Len(FEATURE_MASKS) THEN Ok(m)
    ELSE LET feature_mask == FEATURE_MASKS[n][1]
             feature_tag == FEATURE_MASKS[n][2]
         IN IF feature_mask \notin feature_masks
            THEN build_lookups_default_from(flist, ls, feature_masks, n + 1, m)
            ELSE LET r == find_langsys_feature(flist, ls, feature_tag)
                 IN IF ~r.ok THEN r
                    ELSE IF IsSome(r.val)
                    THEN build_lookups_default_from(flist, ls, feature_masks, n + 1,
                            insert_lookup_indices(m, Unwrap(r.val).lookup_indices, feature_tag, 1))
                    ELSE IF feature_tag = "vrt2"
                    THEN LET v == find_langsys_feature(flist, ls, "vert")
                         IN IF ~v.ok THEN v
                            ELSE build_lookups_default_from(flist, ls, feature_masks, n + 1,
                                    IF IsSome(v.val)
                                    THEN insert_lookup_indices(m, Unwrap(v.val).lookup_indices,
                                                               "vert", 1)
                                    ELSE m)
                    ELSE build_lookups_default_from(flist, ls, feature_masks, n + 1, m)

\* The loop without its else-if branch: a feature the LangSys lacks adds
\* nothing, vrt2 included.
build_lookups_default_no_vert(flist, ls, feature_masks) ==
    LET enabled == SelectSeq(FEATURE_MASKS, LAMBDA e : e[1] \in feature_masks)
    IN build_lookups_from(flist, ls, [n \in 1..Len(enabled) |-> enabled[n][2]], 1, <<>>)

build_lookups_default(flist, ls, feature_masks) ==
    build_lookups_default_from(flist, ls, feature_masks, 1, <<>>)

\* make_supported_features_mask: union of from_tag over the declared features.
RECURSIVE make_supported_features_mask_from(_, _, _, _)
make_supported_features_mask_from(flist, ls, n, feature_mask) ==
    IF n > Len(ls) THEN Ok(feature_mask)
    ELSE LET r == feature_by_index(flist, ls[n])
         IN IF ~r.ok THEN r
            ELSE make_supported_features_mask_from(flist, ls, n + 1,
                    feature_mask \cup from_tag(r.val.feature_tag))

\* GsubFeatureMask::all() in place of the loop: every feature counts as
\* supported.
make_supported_features_mask_all(flist, ls) ==
    Ok({FEATURE_MASKS[n][1] : n \in 1..Len(FEATURE_MASKS)})

make_supported_features_mask(flist, ls) ==
    make_supported_features_mask_from(flist, ls, 1, {})

\* ------------------------------------------------------------------------
\* Glyph sequence model (gsub.rs:98-133)
\* ------------------------------------------------------------------------

\* GlyphOrigin
Char(c) == <<"Char", c>>
Direct == <<"Direct">>

\* Vec<RawGlyph<T>> is a sequence; the code's indices are 0-based.
At(seq, pos) == seq[pos + 1]
SetAt(seq, pos, elem) == SubSeq(seq, 1, pos) \o <<elem>> \o SubSeq(seq, pos + 2, Len(seq))
\* Vec::remove(i)
RemoveAt(seq, pos) == SubSeq(seq, 1, pos) \o SubSeq(seq, pos + 2, Len(seq))
\* Vec::insert(i, g)
InsertAt(seq, pos, elem) == SubSeq(seq, 1, pos) \o <<elem>> \o SubSeq(seq, pos + 1, Len(seq))

\* GlyphData::merge for () and for ArabicData (arabic.rs:17-22): the first
\* operand's data is kept.
GlyphData_merge(data1, data2) == data1

\* ------------------------------------------------------------------------
\* The font the lookups are applied against: GDEF classes and lookup list
\* ------------------------------------------------------------------------

\* Glyph ids: 1 'a', 2 'b', 3 'c', 4 combining mark 'm', 5..9 substitutes,
\* 10 '1', 11 '2', 12 '/', 13 ZWNJ, 14 ZWJ, 15..16 fraction forms, 0 .notdef.
Cmap ==
    [c \in {"a", "b", "c", "m", "1", "2", "/", "ZWNJ", "ZWJ"} |->
        CASE c = "a" -> 1 [] c = "b" -> 2 [] c = "c" -> 3 [] c = "m" -> 4
          [] c = "1" -> 10 [] c = "2" -> 11 [] c = "/" -> 12
          [] c = "ZWNJ" -> 13 [] c = "ZWJ" -> 14]

MarkGlyphs == {4}
LigatureGlyphs == {8, 9}

\* A glyph as the cmap mapping of one character produces it.
MapGlyph(c) ==
    [unicodes |-> <<c>>, glyph_index |-> Some(Cmap[c]), liga_component_pos |-> 0,
     glyph_origin |-> Char(c), small_caps |-> FALSE, multi_subst_dup |-> FALSE,
     is_vert_alt |-> FALSE, fake_bold |-> FALSE, fake_italic |-> FALSE,
     variation |-> None, extra_data |-> "unit"]

RECURSIVE MapGlyphs(_)
MapGlyphs(text) ==
    IF text = <<>> THEN <<>>
    ELSE <<MapGlyph(Head(text))>> \o MapGlyphs(Tail(text))

NoRule == [first |-> 0, backtrack |-> <<>>, input |-> <<>>, lookahead |-> <<>>,
           lookup_array |-> <<>>]
Rule(first, backtrack, input, lookahead, lookup_array) ==
    [first |-> first, backtrack |-> backtrack, input |-> input, lookahead |-> lookahead,
     lookup_array |-> lookup_array]

Lookup(kind, flag, subtables) == [kind |-> kind, lookup_flag |-> flag, subtables |-> subtables]

\* Lookup index -> lookup (index 0 first).  Subtables are flattened to the
\* ordered list of their coverage entries; the first entry that covers the
\* glyph (and, for context kinds, whose rule matches) is the one used.
LookupList ==
    << \* 0: a -> 5
       Lookup("SingleSubst", {}, << <<1, 5>> >>),
       \* 1: a -> (deleted), b -> 6 7, c -> c c c, m -> 5 6 7
       Lookup("MultipleSubst", {},
              << <<1, <<>> >>, <<2, <<6, 7>> >>, <<3, <<3, 3, 3>> >>, <<4, <<5, 6, 7>> >> >>),
       \* 2: a -> one of 5, 6
       Lookup("AlternateSubst", {}, << <<1, <<5, 6>> >> >>),
       \* 3: a b c -> 9, a b -> 8, marks float through
       Lookup("LigatureSubst", {"IGNORE_MARKS"},
              << <<1, [component_glyphs |-> <<2, 3>>, ligature_glyph |-> 9]>>,
                 <<1, [component_glyphs |-> <<2>>, ligature_glyph |-> 8]>> >>),
       \* 4 -> 5 -> 6 -> 7 -> 0: a chain of context lookups, each on 'a'
       Lookup("ContextSubst", {}, << Rule(1, <<>>, <<>>, <<>>, << <<0, 5>> >>) >>),
       Lookup("ContextSubst", {}, << Rule(1, <<>>, <<>>, <<>>, << <<0, 6>> >>) >>),
       Lookup("ChainContextSubst", {}, << Rule(1, <<>>, <<>>, <<>>, << <<0, 7>> >>) >>),
       Lookup("ContextSubst", {}, << Rule(1, <<>>, <<>>, <<>>, << <<0, 0>> >>) >>),
       \* 8: a chaining context on 'b' that references itself
       Lookup("ChainContextSubst", {}, << Rule(2, <<>>, <<>>, <<>>, << <<0, 8>> >>) >>),
       \* 9: 'c' after 'b': nested Multiple c -> c c c
       Lookup("ChainContextSubst", {"IGNORE_MARKS"},
              << Rule(3, <<2>>, <<>>, <<>>, << <<0, 1>> >>) >>),
       \* 10: 'a': nested Ligature at the matched glyph
       Lookup("ContextSubst", {"IGNORE_MARKS"}, << Rule(1, <<>>, <<>>, <<>>, << <<0, 3>> >>) >>),
       \* 11: b -> 6 before a 'b', scanned back to front
       Lookup("ReverseChainSingleSubst", {},
              << [coverage |-> << <<2, 6>> >>, backtrack |-> <<>>, lookahead |-> <<2>>] >>),
       \* 12: 'a' 'b': nested Multiple deletes the 'a', then 'b' -> 6 7 at index 1
       Lookup("ContextSubst", {}, << Rule(1, <<>>, <<2>>, <<>>, << <<0, 1>>, <<1, 1>> >>) >>),
       \* 13: '1' -> 15, '2' -> 16 (fraction forms)
       Lookup("SingleSubst", {}, << <<10, 15>>, <<11, 16>> >>),
       \* 14: 5 -> 6, and the glyphs of ZWNJ and ZWJ -> 7
       Lookup("SingleSubst", {}, << <<5, 6>>, <<13, 7>>, <<14, 7>> >>),
       \* 15: a '1' -> 9, and the fraction form of '2' followed by a -> 8
       Lookup("LigatureSubst", {},
              << <<1, [component_glyphs |-> <<10>>, ligature_glyph |-> 9]>>,
                 <<16, [component_glyphs |-> <<1>>, ligature_glyph |-> 8]>> >>),
       \* 16: 'a': nested a -> 5 at sequence index 1 (the visible glyph after
       \* the matched one, if there is one), then at sequence index 0
       Lookup("ContextSubst", {"IGNORE_MARKS"},
              << Rule(1, <<>>, <<>>, <<>>, << <<1, 0>>, <<0, 0>> >>) >>)
    >>

\* lookup_list.lookup_cache_gsub(cache, lookup_index): the parsed lookup, or
\* a malformed-data fault for an index outside the lookup list.
lookup_cache_gsub(lookup_index) ==
    IF lookup_index < Len(LookupList) THEN Ok(LookupList[lookup_index + 1]) ELSE Err("BadIndex")

\* ------------------------------------------------------------------------
\* Match engine (crate::context, spec section 4.1)
\* ------------------------------------------------------------------------

\* GDEF glyph class of a glyph; a glyph without a resolved id has none.
glyph_class(glyph) ==
    IF ~IsSome(glyph.glyph_index) THEN "none"
    ELSE IF Unwrap(glyph.glyph_index) \in MarkGlyphs THEN "mark"
    ELSE IF Unwrap(glyph.glyph_index) \in LigatureGlyphs THEN "ligature"
    ELSE "base"

\* MatchType: the set of GDEF classes the lookup does not see.
MatchType_from_lookup_flag(lookup_flag) ==
    {cls \in {"base", "ligature", "mark"} :
        \/ cls = "base" /\ "IGNORE_BASE_GLYPHS" \in lookup_flag
        \/ cls = "ligature" /\ "IGNORE_LIGATURES" \in lookup_flag
        \/ cls = "mark" /\ "IGNORE_MARKS" \in lookup_flag}

MatchType_marks_only == {"base", "ligature"}

\* match_glyph: visible unless the glyph's GDEF class is excluded.
match_glyph(match_type, glyph) == glyph_class(glyph) \notin match_type

\* find_next / find_prev: the nearest visible glyph after / before index.
find_next(match_type, glyphs, index) ==
    Let({j \in (index + 1)..(Len(glyphs) - 1) : match_glyph(match_type, At(glyphs, j))},
        LAMBDA c : IF c = {} THEN None ELSE Some(CHOOSE j \in c : \A k \in c : j <= k))

find_prev(match_type, glyphs, index) ==
    Let({j \in 0..(index - 1) : match_glyph(match_type, At(glyphs, j))},
        LAMBDA c : IF c = {} THEN None ELSE Some(CHOOSE j \in c : \A k \in c : j >= k))

\* find_nth: the index of the count-th visible glyph after start (start
\* itself for count 0), None when the sequence is exhausted.
RECURSIVE find_nth(_, _, _, _)
find_nth(match_type, glyphs, index, count) ==
    IF count = 0 THEN Some(index)
    ELSE Let(find_next(match_type, glyphs, index),
             LAMBDA n : IF IsSome(n) THEN find_nth(match_type, glyphs, Unwrap(n), count - 1)
                        ELSE None)

\* match_front: the visible glyphs after index are the table's glyphs, in
\* order; Some(index of the last one matched) on success.
RECURSIVE match_front(_, _, _, _, _)
match_front(match_type, table, glyphs, index, n) ==
    IF n > Len(table) THEN Some(index)
    ELSE Let(find_next(match_type, glyphs, index),
             LAMBDA nx : IF IsSome(nx) /\ At(glyphs, Unwrap(nx)).glyph_index = Some(table[n])
                         THEN match_front(match_type, table, glyphs, Unwrap(nx), n + 1)
                         ELSE None)

\* match_back: the visible glyphs before index are the table's glyphs,
\* nearest first.
RECURSIVE match_back(_, _, _, _, _)
match_back(match_type, table, glyphs, index, n) ==
    IF n > Len(table) THEN TRUE
    ELSE Let(find_prev(match_type, glyphs, index),
             LAMBDA pv : IF IsSome(pv) /\ At(glyphs, Unwrap(pv)).glyph_index = Some(table[n])
                         THEN match_back(match_type, table, glyphs, Unwrap(pv), n + 1)
                         ELSE FALSE)

\* MatchContext::matches: backtrack before i, input after i, lookahead
\* after the last input glyph.
context_matches(match_type, rule, glyphs, i) ==
    /\ match_back(match_type, rule.backtrack, glyphs, i, 1)
    /\ Let(match_front(match_type, rule.input, glyphs, i, 1),
           LAMBDA last :
               /\ IsSome(last)
               /\ IsSome(match_front(match_type, rule.lookahead, glyphs, Unwrap(last), 1)))

\* The first entry of a flattened subtable list that satisfies hit.
FirstEntry(subtables, hit(_)) ==
    Let({n \in 1..Len(subtables) : hit(subtables[n])},
        LAMBDA c : IF c = {} THEN None
                   ELSE Some(subtables[CHOOSE n \in c : \A k \in c : n <= k]))

\* ------------------------------------------------------------------------
\* Substitution executors (gsub.rs:39-96, 355-773)
\* ------------------------------------------------------------------------

SUBST_RECURSION_LIMIT_off_by_one == 2 + 1

SUBST_RECURSION_LIMIT == 2

GlyphId(glyphs, i) == At(glyphs, i).glyph_index

\* What an executor hands back: st is "ok", "err" (a ParseError, in why) or
\* "panic" (the message in why); glyphs is the sequence as the executor left
\* it; val is the executor's Ok value; depth is the deepest level of nested
\* context application the executor reached.
Outcome(st, glyphs, val, why, depth) ==
    [st |-> st, glyphs |-> glyphs, val |-> val, why |-> why, depth |-> depth]

singlesubst_would_apply(subtables, i, glyphs) ==
    IF IsSome(GlyphId(glyphs, i))
    THEN Let(FirstEntry(subtables, LAMBDA s : s[1] = Unwrap(GlyphId(glyphs, i))),
             LAMBDA e : IF IsSome(e) THEN Some(Unwrap(e)[2]) ELSE None)
    ELSE None

\* is_vert_alt set whatever the feature tag is.
singlesubst_always_vert_alt(subtables, subst_tag, i, glyphs) ==
    Let(singlesubst_would_apply(subtables, i, glyphs),
        LAMBDA out :
            IF IsSome(out)
            THEN SetAt(glyphs, i,
                     [At(glyphs, i) EXCEPT !.glyph_index = Some(Unwrap(out)),
                                           !.glyph_origin = Direct,
                                           !.is_vert_alt = TRUE])
            ELSE glyphs)

singlesubst(subtables, subst_tag, i, glyphs) ==
    Let(singlesubst_would_apply(subtables, i, glyphs),
        LAMBDA out :
            IF IsSome(out)
            THEN SetAt(glyphs, i,
                     [At(glyphs, i) EXCEPT !.glyph_index = Some(Unwrap(out)),
                                           !.glyph_origin = Direct,
                                           !.is_vert_alt = IF subst_tag \in {"vert", "vrt2"}
                                                           THEN TRUE ELSE @])
            ELSE glyphs)

multiplesubst_would_apply(subtables, i, glyphs) ==
    IF IsSome(GlyphId(glyphs, i))
    THEN Let(FirstEntry(subtables, LAMBDA s : s[1] = Unwrap(GlyphId(glyphs, i))),
             LAMBDA e : IF IsSome(e) THEN Some(Unwrap(e)[2]) ELSE None)
    ELSE None

\* multi_subst_dup copied from glyphs[i] like the other flags.
RECURSIVE multiplesubst_insert_unmarked(_, _, _, _)
multiplesubst_insert_unmarked(substitute_glyphs, i, glyphs, j) ==
    IF j >= Len(substitute_glyphs) THEN glyphs
    ELSE multiplesubst_insert_unmarked(substitute_glyphs, i,
            InsertAt(glyphs, i + j,
                [At(glyphs, i) EXCEPT !.glyph_index = Some(substitute_glyphs[j + 1]),
                                      !.liga_component_pos = 0,
                                      !.glyph_origin = Direct]),
            j + 1)

\* The loop for j in 1..substitute_glyphs.len(): glyphs.insert(i + j, ..)
RECURSIVE multiplesubst_insert(_, _, _, _)
multiplesubst_insert(substitute_glyphs, i, glyphs, j) ==
    IF j >= Len(substitute_glyphs) THEN glyphs
    ELSE multiplesubst_insert(substitute_glyphs, i,
            InsertAt(glyphs, i + j,
                [unicodes |-> At(glyphs, i).unicodes,
                 glyph_index |-> Some(substitute_glyphs[j + 1]),
                 liga_component_pos |-> 0,
                 glyph_origin |-> Direct,
                 small_caps |-> At(glyphs, i).small_caps,
                 multi_subst_dup |-> TRUE,
                 is_vert_alt |-> At(glyphs, i).is_vert_alt,
                 fake_bold |-> At(glyphs, i).fake_bold,
                 fake_italic |-> At(glyphs, i).fake_italic,
                 variation |-> At(glyphs, i).variation,
                 extra_data |-> At(glyphs, i).extra_data]),
            j + 1)

\* An empty sequence table taken for no substitution at all.
multiplesubst_keeps_empty(subtables, i, glyphs) ==
    Let(multiplesubst_would_apply(subtables, i, glyphs),
        LAMBDA st :
            IF IsSome(st) /\ Len(Unwrap(st)) > 0
            THEN [glyphs |-> multiplesubst_insert(Unwrap(st), i,
                                SetAt(glyphs, i,
                                    [At(glyphs, i) EXCEPT
                                        !.glyph_index = Some(Unwrap(st)[1]),
                                        !.glyph_origin = Direct]),
                                1),
                  val |-> Some(Len(Unwrap(st)))]
            ELSE [glyphs |-> glyphs, val |-> None])

\* Returns [glyphs, val]: val is Some(replace_count) or None.
multiplesubst(subtables, i, glyphs) ==
    Let(multiplesubst_would_apply(subtables, i, glyphs),
        LAMBDA st :
            IF IsSome(st)
            THEN IF Len(Unwrap(st)) > 0
                 THEN [glyphs |-> multiplesubst_insert(Unwrap(st), i,
                                     SetAt(glyphs, i,
                                         [At(glyphs, i) EXCEPT
                                             !.glyph_index = Some(Unwrap(st)[1]),
                                             !.glyph_origin = Direct]),
                                     1),
                       val |-> Some(Len(Unwrap(st)))]
                 ELSE [glyphs |-> RemoveAt(glyphs, i), val |-> Some(0)]
            ELSE [glyphs |-> glyphs, val |-> None])

alternatesubst_would_apply(subtables, i, glyphs) ==
    IF IsSome(GlyphId(glyphs, i))
    THEN Let(FirstEntry(subtables, LAMBDA s : s[1] = Unwrap(GlyphId(glyphs, i))),
             LAMBDA e : IF IsSome(e) THEN Some(Unwrap(e)[2]) ELSE None)
    ELSE None

\* An index past the alternate set falls back to the set's last alternate.
alternatesubst_clamped(subtables, alternate, i, glyphs) ==
    Let(alternatesubst_would_apply(subtables, i, glyphs),
        LAMBDA aset :
            IF IsSome(aset) /\ Len(Unwrap(aset)) > 0
            THEN SetAt(glyphs, i,
                     [At(glyphs, i) EXCEPT
                         !.glyph_index = Some(Unwrap(aset)[IF alternate < Len(Unwrap(aset))
                                                           THEN alternate + 1
                                                           ELSE Len(Unwrap(aset))]),
                         !.glyph_origin = Direct])
            ELSE glyphs)

alternatesubst(subtables, alternate, i, glyphs) ==
    Let(alternatesubst_would_apply(subtables, i, glyphs),
        LAMBDA aset :
            IF IsSome(aset) /\ alternate < Len(Unwrap(aset))
            THEN SetAt(glyphs, i,
                     [At(glyphs, i) EXCEPT !.glyph_index = Some(Unwrap(aset)[alternate + 1]),
                                           !.glyph_origin = Direct])
            ELSE glyphs)

Ligature_matches(ligature, match_type, i, glyphs) ==
    IsSome(match_front(match_type, ligature.component_glyphs, glyphs, i, 1))

\* Ligature::apply, first loop: while matched < component_glyphs.len()
RECURSIVE Ligature_apply_components(_, _, _, _, _, _, _)
Ligature_apply_components(ligature, match_type, i, glyphs, index, matched, skip) ==
    IF matched >= Len(ligature.component_glyphs)
    THEN [panic |-> FALSE, glyphs |-> glyphs, index |-> index, matched |-> matched,
          skip |-> skip]
    ELSE IF index < Len(glyphs)
    THEN IF match_glyph(match_type, At(glyphs, index))
         THEN Ligature_apply_components(ligature, match_type, i,
                  RemoveAt(SetAt(glyphs, i,
                               [At(glyphs, i) EXCEPT
                                   !.unicodes = @ \o At(glyphs, index).unicodes,
                                   !.extra_data = GlyphData_merge(@, At(glyphs, index).extra_data)]),
                           index),
                  index, matched + 1, skip)
         ELSE Ligature_apply_components(ligature, match_type, i,
                  SetAt(glyphs, index, [At(glyphs, index) EXCEPT !.liga_component_pos = matched]),
                  index + 1, matched, skip + 1)
    ELSE [panic |-> TRUE, glyphs |-> glyphs, index |-> index, matched |-> matched,
          skip |-> skip]

\* Ligature::apply, second loop: the marks that follow the last component
RECURSIVE Ligature_apply_marks(_, _, _)
Ligature_apply_marks(glyphs, index, matched) ==
    IF index < Len(glyphs) /\ match_glyph(MatchType_marks_only, At(glyphs, index))
    THEN Ligature_apply_marks(
            SetAt(glyphs, index, [At(glyphs, index) EXCEPT !.liga_component_pos = matched]),
            index + 1, matched)
    ELSE glyphs

\* Returns [panic, glyphs, skip].
Ligature_apply(ligature, match_type, i, glyphs) ==
    Let(Ligature_apply_components(ligature, match_type, i, glyphs, i + 1, 0, 0),
        LAMBDA c :
            IF c.panic THEN [panic |-> TRUE, glyphs |-> c.glyphs, skip |-> c.skip]
            ELSE Let(Ligature_apply_marks(c.glyphs, c.index, c.matched),
                     LAMBDA g :
                         [panic |-> FALSE,
                          glyphs |-> SetAt(g, i, [At(g, i) EXCEPT
                                                    !.glyph_index = Some(ligature.ligature_glyph),
                                                    !.glyph_origin = Direct]),
                          skip |-> c.skip]))

\* The first ligature of the covering set, without Ligature::matches.
ligaturesubst_would_apply_unmatched(subtables, match_type, i, glyphs) ==
    IF IsSome(GlyphId(glyphs, i))
    THEN Let(FirstEntry(subtables, LAMBDA s : s[1] = Unwrap(GlyphId(glyphs, i))),
             LAMBDA e : IF IsSome(e) THEN Some(Unwrap(e)[2]) ELSE None)
    ELSE None

ligaturesubst_would_apply(subtables, match_type, i, glyphs) ==
    IF IsSome(GlyphId(glyphs, i))
    THEN Let(FirstEntry(subtables,
                 LAMBDA s : /\ s[1] = Unwrap(GlyphId(glyphs, i))
                            /\ Ligature_matches(s[2], match_type, i, glyphs)),
             LAMBDA e : IF IsSome(e) THEN Some(Unwrap(e)[2]) ELSE None)
    ELSE None

\* The removed count reported with the trigger glyph counted in.
ligaturesubst_counts_trigger(subtables, match_type, i, glyphs) ==
    Let(ligaturesubst_would_apply(subtables, match_type, i, glyphs),
        LAMBDA lig :
            IF IsSome(lig)
            THEN Let(Ligature_apply(Unwrap(lig), match_type, i, glyphs),
                     LAMBDA a :
                         IF a.panic
                         THEN Outcome("panic", a.glyphs, None, "ran out of glyphs", 0)
                         ELSE Outcome("ok", a.glyphs,
                                      Some(<<Len(Unwrap(lig).component_glyphs) + 1, a.skip>>),
                                      "", 0))
            ELSE Outcome("ok", glyphs, None, "", 0))

\* Returns an Outcome whose val is Some(<<removed_count, skip_count>>) or None.
ligaturesubst(subtables, match_type, i, glyphs) ==
    Let(ligaturesubst_would_apply(subtables, match_type, i, glyphs),
        LAMBDA lig :
            IF IsSome(lig)
            THEN Let(Ligature_apply(Unwrap(lig), match_type, i, glyphs),
                     LAMBDA a :
                         IF a.panic
                         THEN Outcome("panic", a.glyphs, None, "ran out of glyphs", 0)
                         ELSE Outcome("ok", a.glyphs,
                                      Some(<<Len(Unwrap(lig).component_glyphs), a.skip>>),
                                      "", 0))
            ELSE Outcome("ok", glyphs, None, "", 0))

contextsubst_would_apply(subtables, match_type, i, glyphs) ==
    IF IsSome(GlyphId(glyphs, i))
    THEN FirstEntry(subtables,
            LAMBDA rule : /\ rule.first = Unwrap(GlyphId(glyphs, i))
                          /\ IsSome(match_front(match_type, rule.input, glyphs, i, 1)))
    ELSE None

chaincontextsubst_would_apply(subtables, match_type, i, glyphs) ==
    IF IsSome(GlyphId(glyphs, i))
    THEN FirstEntry(subtables,
            LAMBDA rule : /\ rule.first = Unwrap(GlyphId(glyphs, i))
                          /\ context_matches(match_type, rule, glyphs, i))
    ELSE None

reversechainsinglesubst_would_apply(subtables, match_type, i, glyphs) ==
    IF IsSome(GlyphId(glyphs, i))
    THEN LET hits(s) == {n \in 1..Len(s.coverage) :
                            s.coverage[n][1] = Unwrap(GlyphId(glyphs, i))}
         IN Let(FirstEntry(subtables,
                    LAMBDA s : /\ hits(s) # {}
                               /\ context_matches(match_type,
                                      [backtrack |-> s.backtrack, input |-> <<>>,
                                       lookahead |-> s.lookahead], glyphs, i)),
                LAMBDA e :
                    IF IsSome(e)
                    THEN Some(Unwrap(e).coverage[CHOOSE n \in hits(Unwrap(e)) :
                                                    \A k \in hits(Unwrap(e)) : n <= k][2])
                    ELSE None)
    ELSE None

\* The glyph id replaced and the origin left as it was.
reversechainsinglesubst_keep_origin(subtables, match_type, i, glyphs) ==
    Let(reversechainsinglesubst_would_apply(subtables, match_type, i, glyphs),
        LAMBDA out :
            IF IsSome(out)
            THEN SetAt(glyphs, i, [At(glyphs, i) EXCEPT !.glyph_index = out])
            ELSE glyphs)

reversechainsinglesubst(subtables, match_type, i, glyphs) ==
    Let(reversechainsinglesubst_would_apply(subtables, match_type, i, glyphs),
        LAMBDA out :
            IF IsSome(out)
            THEN SetAt(glyphs, i, [At(glyphs, i) EXCEPT !.glyph_index = out,
                                                        !.glyph_origin = Direct])
            ELSE glyphs)

\* checked_add(base: usize, changes: isize) -> Option<usize>
checked_add(base, changes) ==
    IF base + changes < 0 THEN None ELSE Some(base + changes)

MaxOf(a, b) == IF a >= b THEN a ELSE b

RECURSIVE apply_subst(_, _, _, _, _, _, _, _)
RECURSIVE apply_subst_array(_, _, _, _, _, _, _, _, _)

\* apply_subst_context; depth is the nesting level at which the lookups of
\* subst.lookup_array are applied (1 under a top-level context lookup).
\* val is Some(<<new_len, changes>>) or None.
apply_subst_context(recursion_limit, feature_tag, match_type, subst, i, glyphs, depth) ==
    Let(find_nth(match_type, glyphs, i, Len(subst.input)),
        LAMBDA last :
            IF ~IsSome(last) THEN Outcome("ok", glyphs, None, "", depth - 1)
            ELSE Let(apply_subst_array(recursion_limit, feature_tag, match_type,
                                       subst.lookup_array, 1, i, glyphs, 0, depth),
                     LAMBDA a :
                         LET len == Unwrap(last) - i + 1
                         IN IF a.st # "ok" THEN a
                            ELSE IF IsSome(checked_add(len, a.val))
                            THEN Outcome("ok", a.glyphs,
                                         Some(<<Unwrap(checked_add(len, a.val)), a.val>>),
                                         "", a.depth)
                            ELSE Outcome("panic", a.glyphs, None,
                                         "apply_subst_context: len < 0", a.depth)))

\* The loop left at the first record for which apply_subst returns None.
apply_subst_array_stop(recursion_limit, feature_tag, match_type, lookup_array, n, i, glyphs, changes, depth) ==
    IF n > Len(lookup_array) THEN Outcome("ok", glyphs, changes, "", depth - 1)
    ELSE Let(apply_subst(recursion_limit, match_type, lookup_array[n][1],
                         lookup_array[n][2], feature_tag, glyphs, i, depth),
             LAMBDA r :
                 IF r.st # "ok" THEN r
                 ELSE IF ~IsSome(r.val) THEN Outcome("ok", r.glyphs, changes, "", depth - 1)
                 ELSE [apply_subst_array(recursion_limit, feature_tag, match_type,
                           lookup_array, n + 1, i, r.glyphs, changes + Unwrap(r.val), depth)
                       EXCEPT !.depth = MaxOf(@, r.depth)])

\* The loop for (subst_index, subst_lookup_index) in subst.lookup_array, from
\* entry n with the changes summed so far; val is the sum of the changes.
apply_subst_array(recursion_limit, feature_tag, match_type, lookup_array, n, i, glyphs, changes, depth) ==
    IF n > Len(lookup_array) THEN Outcome("ok", glyphs, changes, "", depth - 1)
    ELSE Let(apply_subst(recursion_limit, match_type, lookup_array[n][1],
                         lookup_array[n][2], feature_tag, glyphs, i, depth),
             LAMBDA r :
                 IF r.st # "ok" THEN r
                 ELSE [apply_subst_array(recursion_limit, feature_tag, match_type,
                           lookup_array, n + 1, i, r.glyphs,
                           IF IsSome(r.val) THEN changes + Unwrap(r.val) ELSE changes,
                           depth)
                       EXCEPT !.depth = MaxOf(@, r.depth)])

contextsubst(recursion_limit, subtables, feature_tag, match_type, i, glyphs, depth) ==
    Let(contextsubst_would_apply(subtables, match_type, i, glyphs),
        LAMBDA subst :
            IF IsSome(subst)
            THEN apply_subst_context(recursion_limit, feature_tag, match_type, Unwrap(subst),
                                     i, glyphs, depth)
            ELSE Outcome("ok", glyphs, None, "", depth - 1))

chaincontextsubst(recursion_limit, subtables, feature_tag, match_type, i, glyphs, depth) ==
    Let(chaincontextsubst_would_apply(subtables, match_type, i, glyphs),
        LAMBDA subst :
            IF IsSome(subst)
            THEN apply_subst_context(recursion_limit, feature_tag, match_type, Unwrap(subst),
                                     i, glyphs, depth)
            ELSE Outcome("ok", glyphs, None, "", depth - 1))

\* apply_subst: one (subst_index, lookup_index) pair of a matched context
\* rule, at nesting level depth; val is Some(change of length) or None.
apply_subst(recursion_limit, parent_match_type, subst_index, lookup_index, feature_tag, glyphs, index, depth) ==
    Let(lookup_cache_gsub(lookup_index), LAMBDA lk :
    IF ~lk.ok THEN Outcome("err", glyphs, None, lk.err, depth - 1)
    ELSE
    Let(find_nth(parent_match_type, glyphs, index, subst_index), LAMBDA nth :
    IF ~IsSome(nth) THEN Outcome("ok", glyphs, None, "", depth - 1)
    ELSE
    LET lookup == lk.val
        match_type == MatchType_from_lookup_flag(lookup.lookup_flag)
        i == Unwrap(nth)
    IN CASE lookup.kind = "SingleSubst" ->
              Outcome("ok", singlesubst(lookup.subtables, feature_tag, i, glyphs),
                      Some(0), "", depth - 1)
         [] lookup.kind = "MultipleSubst" ->
              Let(multiplesubst(lookup.subtables, i, glyphs),
                  LAMBDA m :
                      Outcome("ok", m.glyphs,
                              IF IsSome(m.val) THEN Some(Unwrap(m.val) - 1) ELSE None,
                              "", depth - 1))
         [] lookup.kind = "AlternateSubst" ->
              Outcome("ok", alternatesubst(lookup.subtables, 0, i, glyphs),
                      Some(0), "", depth - 1)
         [] lookup.kind = "LigatureSubst" ->
              Let(ligaturesubst(lookup.subtables, match_type, i, glyphs),
                  LAMBDA l :
                      IF l.st # "ok" THEN [l EXCEPT !.depth = depth - 1]
                      ELSE Outcome("ok", l.glyphs,
                                   IF IsSome(l.val) THEN Some(0 - Unwrap(l.val)[1]) ELSE None,
                                   "", depth - 1))
         [] lookup.kind = "ContextSubst" ->
              IF recursion_limit > 0
              THEN Let(contextsubst(recursion_limit - 1, lookup.subtables, feature_tag,
                                    match_type, i, glyphs, depth + 1),
                       LAMBDA c :
                           IF c.st # "ok" THEN [c EXCEPT !.depth = MaxOf(@, depth)]
                           ELSE Outcome("ok", c.glyphs,
                                        IF IsSome(c.val) THEN Some(Unwrap(c.val)[2]) ELSE None,
                                        "", MaxOf(c.depth, depth)))
              ELSE Outcome("err", glyphs, None, "LimitExceeded", depth)
         [] lookup.kind = "ChainContextSubst" ->
              IF recursion_limit > 0
              THEN Let(chaincontextsubst(recursion_limit - 1, lookup.subtables, feature_tag,
                                         match_type, i, glyphs, depth + 1),
                       LAMBDA c :
                           IF c.st # "ok" THEN [c EXCEPT !.depth = MaxOf(@, depth)]
                           ELSE Outcome("ok", c.glyphs,
                                        IF IsSome(c.val) THEN Some(Unwrap(c.val)[2]) ELSE None,
                                        "", MaxOf(c.depth, depth)))
              ELSE Outcome("err", glyphs, None, "LimitExceeded", depth)
         [] lookup.kind = "ReverseChainSingleSubst" ->
              Outcome("ok", reversechainsinglesubst(lookup.subtables, match_type, i, glyphs),
                      Some(0), "", depth - 1)))

\* ------------------------------------------------------------------------
\* Lookup application loop (gsub.rs:227-353)
\* ------------------------------------------------------------------------

\* usize arithmetic.  The width of usize is represented by UsizeModulus; a
\* result outside 0..UsizeModulus-1 panics when the build has overflow checks
\* (debug profile) and wraps when it has none (release profile).
UsizeModulus == 65536

UsizeFits(x) == 0 <= x /\ x < UsizeModulus
UsizeWrap(x) == x % UsizeModulus

\* gsub_lookup_would_apply (gsub.rs:158-225).
gsub_lookup_would_apply(lookup, glyphs, i) ==
    LET match_type == MatchType_from_lookup_flag(lookup.lookup_flag)
    IN IF i < Len(glyphs) /\ match_glyph(match_type, At(glyphs, i))
       THEN CASE lookup.kind = "SingleSubst" ->
                   IsSome(singlesubst_would_apply(lookup.subtables, i, glyphs))
              [] lookup.kind = "MultipleSubst" ->
                   IsSome(multiplesubst_would_apply(lookup.subtables, i, glyphs))
              [] lookup.kind = "AlternateSubst" ->
                   IsSome(alternatesubst_would_apply(lookup.subtables, i, glyphs))
              [] lookup.kind = "LigatureSubst" ->
                   IsSome(ligaturesubst_would_apply(lookup.subtables, match_type, i, glyphs))
              [] lookup.kind = "ContextSubst" ->
                   IsSome(contextsubst_would_apply(lookup.subtables, match_type, i, glyphs))
              [] lookup.kind = "ChainContextSubst" ->
                   IsSome(chaincontextsubst_would_apply(lookup.subtables, match_type, i,
                                                        glyphs))
              [] lookup.kind = "ReverseChainSingleSubst" ->
                   IsSome(reversechainsinglesubst_would_apply(lookup.subtables, match_type,
                                                              i, glyphs))
       ELSE FALSE

\* The position predicate `pred`: "any" is |_| true, a feature tag is
\* |g| g.extra_data.feature_tag == feature_tag.
Pred_always(pred, glyph) == TRUE
Pred(pred, glyph) ==
    IF pred = "any" THEN TRUE ELSE glyph.extra_data.feature_tag = pred

IsReverse(lookup) == lookup.kind = "ReverseChainSingleSubst"
IsVariableWidth(lookup) ==
    lookup.kind \in {"MultipleSubst", "LigatureSubst", "ContextSubst", "ChainContextSubst"}

\* The cursor a loop starts with: `start` for the forward loops; for the
\* reversed range the cursor is one past the next position to visit.
LoopStart(lookup, start, length) ==
    IF IsReverse(lookup) THEN UsizeWrap(start + length) ELSE start

\* The loop test: "run", "exit", or "panic" when start + length overflows in
\* a build with overflow checks.
LoopCond(lookup, start, length, i, checks) ==
    IF ~UsizeFits(start + length) /\ checks THEN "panic"
    ELSE IF IsReverse(lookup)
    THEN (IF i > start THEN "run" ELSE "exit")
    ELSE (IF i < UsizeWrap(start + length) THEN "run" ELSE "exit")

\* What one loop iteration leaves: the sequence, the window length, the
\* cursor, the signed change of length the executor reported, and the
\* deepest nested context level reached.
Iter(st, why, glyphs, length, i, delta, depth) ==
    [st |-> st, why |-> why, glyphs |-> glyphs, length |-> length, i |-> i,
     delta |-> delta, depth |-> depth]

\* `length += replace_count; length -= 1` and `length -= removed_count`:
\* plain usize arithmetic.
IterAdjust(glyphs, length, i, delta, depth, checks) ==
    IF UsizeFits(length + delta)
    THEN Iter("ok", "", glyphs, length + delta, i, delta, depth)
    ELSE IF checks
    THEN Iter("panic", "arithmetic overflow", glyphs, length, i, delta, depth)
    ELSE Iter("ok", "", glyphs, UsizeWrap(length + delta), i, delta, depth)

\* `length = checked_add(length, changes).unwrap()`
IterCheckedAdjust(glyphs, length, i, changes, depth) ==
    IF IsSome(checked_add(length, changes))
    THEN Iter("ok", "", glyphs, Unwrap(checked_add(length, changes)), i, changes, depth)
    ELSE Iter("panic", "called Option::unwrap() on a None value", glyphs, length, i,
              changes, depth)

\* One iteration of the loop of gsub_apply_lookup for the lookup's kind, with
\* the cursor at i.
LoopIter(lookup, feature_tag, opt_alternate, pred, glyphs, start, length, i, checks) ==
    LET match_type == MatchType_from_lookup_flag(lookup.lookup_flag)
        at == IF IsReverse(lookup) THEN i - 1 ELSE i
    IN IF at >= Len(glyphs)
       THEN Iter("panic", "index out of bounds", glyphs, length, i, 0, 0)
       ELSE IF ~(match_glyph(match_type, At(glyphs, at)) /\ Pred(pred, At(glyphs, at)))
       THEN Iter("ok", "", glyphs, length, IF IsReverse(lookup) THEN i - 1 ELSE i + 1, 0, 0)
       ELSE
       CASE lookup.kind = "SingleSubst" ->
              Iter("ok", "", singlesubst(lookup.subtables, feature_tag, at, glyphs),
                   length, i + 1, 0, 0)
         [] lookup.kind = "MultipleSubst" ->
              Let(multiplesubst(lookup.subtables, at, glyphs),
                  LAMBDA m :
                      IF IsSome(m.val)
                      THEN IterAdjust(m.glyphs, length, i + Unwrap(m.val), Unwrap(m.val) - 1,
                                      0, checks)
                      ELSE Iter("ok", "", glyphs, length, i + 1, 0, 0))
         [] lookup.kind = "AlternateSubst" ->
              Iter("ok", "",
                   alternatesubst(lookup.subtables,
                                  IF IsSome(opt_alternate) THEN Unwrap(opt_alternate) ELSE 0,
                                  at, glyphs),
                   length, i + 1, 0, 0)
         [] lookup.kind = "LigatureSubst" ->
              Let(ligaturesubst(lookup.subtables, match_type, at, glyphs),
                  LAMBDA l :
                      IF l.st # "ok" THEN Iter(l.st, l.why, l.glyphs, length, i, 0, 0)
                      ELSE IF IsSome(l.val)
                      THEN IterAdjust(l.glyphs, length, i + Unwrap(l.val)[2] + 1,
                                      0 - Unwrap(l.val)[1], 0, checks)
                      ELSE Iter("ok", "", glyphs, length, i + 1, 0, 0))
         [] lookup.kind = "ContextSubst" ->
              Let(contextsubst(SUBST_RECURSION_LIMIT, lookup.subtables, feature_tag,
                               match_type, at, glyphs, 1),
                  LAMBDA c :
                      IF c.st # "ok" THEN Iter(c.st, c.why, c.glyphs, length, i, 0, c.depth)
                      ELSE IF IsSome(c.val)
                      THEN IterCheckedAdjust(c.glyphs, length, i + Unwrap(c.val)[1],
                                             Unwrap(c.val)[2], c.depth)
                      ELSE Iter("ok", "", glyphs, length, i + 1, 0, c.depth))
         [] lookup.kind = "ChainContextSubst" ->
              Let(chaincontextsubst(SUBST_RECURSION_LIMIT, lookup.subtables, feature_tag,
                                    match_type, at, glyphs, 1),
                  LAMBDA c :
                      IF c.st # "ok" THEN Iter(c.st, c.why, c.glyphs, length, i, 0, c.depth)
                      ELSE IF IsSome(c.val)
                      THEN IterCheckedAdjust(c.glyphs, length, i + Unwrap(c.val)[1],
                                             Unwrap(c.val)[2], c.depth)
                      ELSE Iter("ok", "", glyphs, length, i + 1, 0, c.depth))
         [] lookup.kind = "ReverseChainSingleSubst" ->
              Iter("ok", "", reversechainsinglesubst(lookup.subtables, match_type, at, glyphs),
                   length, i - 1, 0, 0)

\* The loop of gsub_apply_lookup from cursor i to its end.
RECURSIVE gsub_apply_lookup_loop(_, _, _, _, _, _, _, _, _, _)
gsub_apply_lookup_loop(lookup, feature_tag, opt_alternate, pred, glyphs, start, length, i, checks, depth) ==
    Let(LoopCond(lookup, start, length, i, checks), LAMBDA c :
    IF c = "panic" THEN Outcome("panic", glyphs, length, "arithmetic overflow", depth)
    ELSE IF c = "exit" THEN Outcome("ok", glyphs, length, "", depth)
    ELSE Let(LoopIter(lookup, feature_tag, opt_alternate, pred, glyphs, start, length, i,
                      checks),
             LAMBDA r :
                 IF r.st # "ok"
                 THEN Outcome(r.st, r.glyphs, r.length, r.why, MaxOf(depth, r.depth))
                 ELSE gsub_apply_lookup_loop(lookup, feature_tag, opt_alternate, pred,
                                             r.glyphs, start, r.length, r.i, checks,
                                             MaxOf(depth, r.depth))))

\* gsub_apply_lookup: val is the returned window length.
gsub_apply_lookup(lookup_index, feature_tag, opt_alternate, glyphs, start, length, pred, checks) ==
    Let(lookup_cache_gsub(lookup_index), LAMBDA lk :
    IF ~lk.ok THEN Outcome("err", glyphs, length, lk.err, 0)
    ELSE gsub_apply_lookup_loop(lk.val, feature_tag, opt_alternate, pred, glyphs, start,
                                length, LoopStart(lk.val, start, length), checks, 0))

\* gsub_apply_lookups_impl: the lookups from entry n on, each given the
\* length the one before returned; val is the final length.
RECURSIVE gsub_apply_lookups_impl_from(_, _, _, _, _, _)
gsub_apply_lookups_impl_from(lookups, n, glyphs, start, length, checks) ==
    IF n > Len(lookups) THEN Outcome("ok", glyphs, length, "", 0)
    ELSE Let(gsub_apply_lookup(lookups[n][1], lookups[n][2], None, glyphs, start, length,
                               "any", checks),
             LAMBDA r :
                 IF r.st # "ok" THEN r
                 ELSE gsub_apply_lookups_impl_from(lookups, n + 1, r.glyphs, start, r.val,
                                                   checks))

gsub_apply_lookups_impl(lookups, glyphs, start, length, checks) ==
    gsub_apply_lookups_impl_from(lookups, 1, glyphs, start, length, checks)

\* ------------------------------------------------------------------------
\* Default shaping pipeline and the layout cache (gsub.rs:852-880, 942-968,
\* 1061-1280)
\* ------------------------------------------------------------------------

\* HashMap as the set of its <<key, value>> entries, one per key.
MapHas(m, k) == \E e \in m : e[1] = k
MapGet(m, k) == (CHOOSE e \in m : e[1] = k)[2]
MapInsert(m, k, v) == {e \in m : e[1] # k} \cup {<<k, v>>}

\* Script record lookup by tag; the record of "DFLT" stands in for a script
\* the table does not list.
find_script(slist, script_tag) ==
    IF \E n \in 1..Len(slist) : slist[n].script_tag = script_tag
    THEN Some(slist[CHOOSE n \in 1..Len(slist) : slist[n].script_tag = script_tag])
    ELSE None

find_script_or_default(slist, script_tag) ==
    IF IsSome(find_script(slist, script_tag)) THEN find_script(slist, script_tag)
    ELSE find_script(slist, "DFLT")

\* LangSys lookup by tag; the script's default LangSys stands in for a
\* language the script does not list.
find_langsys_or_default(script, lang_tag) ==
    IF \E n \in 1..Len(script.langsys_records) : script.langsys_records[n][1] = lang_tag
    THEN Some(script.langsys_records[
                CHOOSE n \in 1..Len(script.langsys_records) :
                    script.langsys_records[n][1] = lang_tag][2])
    ELSE script.default_langsys

\* scripts/mod.rs: the shaping pipeline a script tag selects.
get_script_type(script_tag) ==
    CASE script_tag = "arab" -> "Arabic"
      [] script_tag \in {"deva", "beng", "guru", "gujr", "orya", "taml", "telu", "knda",
                         "mlym"} -> "Indic"
      [] script_tag = "syrc" -> "Syriac"
      [] OTHER -> "Default"

\* The LangSys a (script, lang) pair resolves to, if any.
resolve_langsys(slist, script_tag, lang_tag) ==
    IF IsSome(find_script_or_default(slist, script_tag))
    THEN find_langsys_or_default(Unwrap(find_script_or_default(slist, script_tag)), lang_tag)
    ELSE None

\* The test of the map entry: Entry::Occupied or Entry::Vacant.
EntryOccupied_never(m, k) == FALSE
EntryOccupied(m, k) == MapHas(m, k)

\* get_supported_features: val is the mask, supported the map afterwards,
\* computed tells whether make_supported_features_mask ran.
get_supported_features(supported, flist, slist, script_tag, lang_tag) ==
    IF EntryOccupied(supported, <<script_tag, lang_tag>>)
    THEN [ok |-> TRUE, val |-> MapGet(supported, <<script_tag, lang_tag>>),
          supported |-> supported, computed |-> FALSE]
    ELSE Let(resolve_langsys(slist, script_tag, lang_tag), LAMBDA ls :
         Let(IF IsSome(ls) THEN make_supported_features_mask(flist, Unwrap(ls)) ELSE Ok({}),
             LAMBDA r :
                 IF ~r.ok
                 THEN [ok |-> FALSE, err |-> r.err, supported |-> supported,
                       computed |-> IsSome(ls)]
                 ELSE [ok |-> TRUE, val |-> r.val,
                       supported |-> MapInsert(supported, <<script_tag, lang_tag>>, r.val),
                       computed |-> IsSome(ls)]))

\* The key of lookups_index.
CacheKey_no_mask(script_tag, lang_tag, feature_mask) == <<script_tag, lang_tag, {}>>
CacheKey(script_tag, lang_tag, feature_mask) == <<script_tag, lang_tag, feature_mask>>

\* cached_lookups.borrow_mut().push(lookups)
cached_lookups_push_front(cached, lookups) == <<lookups>> \o cached
cached_lookups_push(cached, lookups) == Append(cached, lookups)

\* The entry is inserted before the lookup list is built.
get_lookups_cache_index_eager(index, cached, flist, slist, script_tag, lang_tag, feature_mask) ==
    LET key == CacheKey(script_tag, lang_tag, feature_mask)
    IN IF EntryOccupied(index, key)
       THEN [ok |-> TRUE, val |-> MapGet(index, key), index |-> index, cached |-> cached,
             built |-> <<>>]
       ELSE Let(resolve_langsys(slist, script_tag, lang_tag), LAMBDA ls :
            IF ~IsSome(ls)
            THEN [ok |-> TRUE, val |-> 0, index |-> MapInsert(index, key, 0),
                  cached |-> cached, built |-> <<>>]
            ELSE Let(build_lookups_default(flist, Unwrap(ls), feature_mask), LAMBDA r :
                 IF ~r.ok
                 THEN [ok |-> FALSE, err |-> r.err,
                       index |-> MapInsert(index, key, Len(cached)), cached |-> cached,
                       built |-> <<key>>]
                 ELSE [ok |-> TRUE, val |-> Len(cached),
                       index |-> MapInsert(index, key, Len(cached)),
                       cached |-> cached_lookups_push(cached, r.val), built |-> <<key>>]))

\* get_lookups_cache_index: val is the index, index and cached the two
\* collections afterwards, built lists the keys build_lookups_default ran for.
get_lookups_cache_index(index, cached, flist, slist, script_tag, lang_tag, feature_mask) ==
    LET key == CacheKey(script_tag, lang_tag, feature_mask)
    IN IF EntryOccupied(index, key)
       THEN [ok |-> TRUE, val |-> MapGet(index, key), index |-> index, cached |-> cached,
             built |-> <<>>]
       ELSE Let(resolve_langsys(slist, script_tag, lang_tag), LAMBDA ls :
            IF ~IsSome(ls)
            THEN [ok |-> TRUE, val |-> 0, index |-> MapInsert(index, key, 0),
                  cached |-> cached, built |-> <<>>]
            ELSE Let(build_lookups_default(flist, Unwrap(ls), feature_mask), LAMBDA r :
                 IF ~r.ok
                 THEN [ok |-> FALSE, err |-> r.err, index |-> index, cached |-> cached,
                       built |-> <<key>>]
                 ELSE [ok |-> TRUE, val |-> Len(cached),
                       index |-> MapInsert(index, key, Len(cached)),
                       cached |-> cached_lookups_push(cached, r.val), built |-> <<key>>]))

\* replace_missing_glyphs: a glyph id the font does not have becomes .notdef.
RECURSIVE replace_missing_glyphs(_, _)
replace_missing_glyphs(glyphs, num_glyphs) ==
    IF glyphs = <<>> THEN <<>>
    ELSE LET glyph == Head(glyphs)
             fixed == IF IsSome(glyph.glyph_index) /\ Unwrap(glyph.glyph_index) >= num_glyphs
                      THEN [unicodes |-> <<>>, glyph_index |-> Some(0),
                            liga_component_pos |-> 0, glyph_origin |-> Direct,
                            small_caps |-> FALSE, multi_subst_dup |-> FALSE,
                            is_vert_alt |-> FALSE, fake_bold |-> FALSE, fake_italic |-> FALSE,
                            variation |-> None, extra_data |-> glyph.extra_data]
                      ELSE glyph
         IN <<fixed>> \o replace_missing_glyphs(Tail(glyphs), num_glyphs)

\* strip_joiners: glyphs mapped from U+200C and U+200D are dropped.
strip_joiners(glyphs) ==
    SelectSeq(glyphs, LAMBDA g : g.glyph_origin \notin {Char("ZWNJ"), Char("ZWJ")})

\* char::is_digit(10) over the characters of the model's cmap.
is_digit(origin) == origin \in {Char("1"), Char("2")}

RECURSIVE find_fraction_start(_, _)
find_fraction_start(glyphs, start_pos) ==
    IF start_pos > 0 /\ is_digit(At(glyphs, start_pos - 1).glyph_origin)
    THEN find_fraction_start(glyphs, start_pos - 1)
    ELSE start_pos

RECURSIVE find_fraction_end(_, _)
find_fraction_end(glyphs, end_pos) ==
    IF end_pos + 1 < Len(glyphs) /\ is_digit(At(glyphs, end_pos + 1).glyph_origin)
    THEN find_fraction_end(glyphs, end_pos + 1)
    ELSE end_pos

\* find_fraction: (start_pos, slash_pos, end_pos) of the digits around the
\* first '/', if it has digits on both sides.
find_fraction(glyphs) ==
    LET slashes == {p \in 0..(Len(glyphs) - 1) : At(glyphs, p).glyph_origin = Char("/")}
    IN IF slashes = {} THEN None
       ELSE LET slash_pos == CHOOSE p \in slashes : \A q \in slashes : p <= q
                start_pos == find_fraction_start(glyphs, slash_pos)
                end_pos == find_fraction_end(glyphs, slash_pos)
            IN IF start_pos < slash_pos /\ slash_pos < end_pos
               THEN Some(<<start_pos, slash_pos, end_pos>>)
               ELSE None

\* `i += gsub_apply_lookups_impl(..)?`: the outcome of the call with val
\* replaced by the advanced index.
Advance(i, r, checks) ==
    IF r.st # "ok" THEN r
    ELSE IF UsizeFits(i + r.val) THEN Outcome("ok", r.glyphs, i + r.val, "", r.depth)
    ELSE IF checks THEN Outcome("panic", r.glyphs, i, "arithmetic overflow", r.depth)
    ELSE Outcome("ok", r.glyphs, UsizeWrap(i + r.val), "", r.depth)

\* gsub_apply_lookups_frac: the while loop from index i.
RECURSIVE gsub_apply_lookups_frac_from(_, _, _, _, _)
gsub_apply_lookups_frac_from(lookups, lookups_frac, glyphs, i, checks) ==
    IF i >= Len(glyphs) THEN Outcome("ok", glyphs, 0, "", 0)
    ELSE Let(find_fraction(SubSeq(glyphs, i + 1, Len(glyphs))), LAMBDA f :
         IF ~IsSome(f)
         THEN gsub_apply_lookups_impl(lookups, glyphs, i, Len(glyphs) - i, checks)
         ELSE LET start_pos == Unwrap(f)[1]
                  end_pos == Unwrap(f)[3]
              IN Let(IF start_pos > 0
                     THEN Advance(i, gsub_apply_lookups_impl(lookups, glyphs, i, start_pos,
                                                             checks),
                                  checks)
                     ELSE Outcome("ok", glyphs, i, "", 0),
                     LAMBDA before :
                     IF before.st # "ok" THEN before
                     ELSE Let(Advance(before.val,
                                      gsub_apply_lookups_impl(lookups_frac, before.glyphs,
                                                              before.val,
                                                              end_pos - start_pos + 1, checks),
                                      checks),
                              LAMBDA frac :
                              IF frac.st # "ok" THEN frac
                              ELSE gsub_apply_lookups_frac_from(lookups, lookups_frac,
                                                                frac.glyphs, frac.val,
                                                                checks))))

gsub_apply_lookups_frac(lookups, lookups_frac, glyphs, checks) ==
    gsub_apply_lookups_frac_from(lookups, lookups_frac, glyphs, 0, checks)

gsub_apply_lookups(lookups, glyphs, checks) ==
    gsub_apply_lookups_impl(lookups, glyphs, 0, Len(glyphs), checks)

\* LayoutCache<GSUB>: the three collections gsub.rs reads and writes.
LayoutCache(supported, index, cached) ==
    [supported_features |-> supported, lookups_index |-> index, cached_lookups |-> cached]

\* What a shaping call leaves: its outcome, the sequence, the cache, and the
\* keys for which the feature mask and the lookup list were computed.
Shaped(st, why, glyphs, cache, computed, built) ==
    [st |-> st, why |-> why, glyphs |-> glyphs, cache |-> cache, computed |-> computed,
     built |-> built]

\* cached_lookups.borrow()[index], then the lookups applied; the branch of
\* gsub_apply_default without FRAC in the mask.
apply_cached(cache, computed, r, glyphs, checks) ==
    IF r.val >= Len(r.cached)
    THEN Shaped("panic", "index out of bounds", glyphs, cache, computed, r.built)
    ELSE Let(gsub_apply_lookups(At(r.cached, r.val), glyphs, checks),
             LAMBDA a : Shaped(a.st, a.why, a.glyphs, cache, computed, r.built))

\* The branch with FRAC in the mask: two cache indices, then the lookups
\* applied around the fractions.
apply_cached_frac(cache, computed, r_frac, r, glyphs, checks) ==
    IF r.val >= Len(r.cached) \/ r_frac.val >= Len(r.cached)
    THEN Shaped("panic", "index out of bounds", glyphs, cache, computed,
                r_frac.built \o r.built)
    ELSE Let(gsub_apply_lookups_frac(At(r.cached, r.val), At(r.cached, r_frac.val), glyphs,
                                     checks),
             LAMBDA a : Shaped(a.st, a.why, a.glyphs, cache, computed,
                               r_frac.built \o r.built))

\* The last two steps run whatever the lookups returned.
finish_default_always(s, num_glyphs) ==
    Shaped(s.st, s.why, replace_missing_glyphs(strip_joiners(s.glyphs), num_glyphs), s.cache,
           s.computed, s.built)

\* The last two steps of gsub_apply_default, reached when nothing failed.
finish_default(s, num_glyphs) ==
    IF s.st # "ok" THEN s
    ELSE Shaped("ok", "", replace_missing_glyphs(strip_joiners(s.glyphs), num_glyphs), s.cache,
                s.computed, s.built)

\* gsub_apply_default for a script of the default pipeline.
gsub_apply_default(cache, flist, slist, script_tag, lang_tag, feature_mask, num_glyphs, glyphs, checks) ==
    Let(get_supported_features(cache.supported_features, flist, slist, script_tag, lang_tag),
        LAMBDA sf :
    LET computed == IF sf.computed THEN << <<script_tag, lang_tag>> >> ELSE <<>>
    IN IF ~sf.ok
       THEN Shaped("err", sf.err, glyphs, cache, computed, <<>>)
       ELSE
       LET mask == feature_mask \cap sf.val
       IN Let(get_lookups_cache_index(cache.lookups_index, cache.cached_lookups, flist, slist,
                                      script_tag, lang_tag, mask),
              LAMBDA r1 :
          LET cache1 == LayoutCache(sf.supported, r1.index, r1.cached)
          IN IF ~r1.ok THEN Shaped("err", r1.err, glyphs, cache1, computed, r1.built)
             ELSE IF "FRAC" \notin mask
             THEN finish_default(apply_cached(cache1, computed, r1, glyphs, checks),
                                 num_glyphs)
             ELSE Let(get_lookups_cache_index(r1.index, r1.cached, flist, slist, script_tag,
                                              lang_tag, mask \ {"FRAC"}),
                      LAMBDA r2 :
                  LET cache2 == LayoutCache(sf.supported, r2.index, r2.cached)
                  IN IF ~r2.ok
                     THEN Shaped("err", r2.err, glyphs, cache2, computed,
                                 r1.built \o r2.built)
                     ELSE finish_default(apply_cached_frac(cache2, computed, r1, r2, glyphs,
                                                           checks),
                                         num_glyphs))))

\* ========================================================================
\* SpecApply: gsub_apply_lookups_impl, one loop iteration per step
\* ========================================================================

MaxLen == 4

ApplyAlphabet == {"a", "b", "c", "m"}

RECURSIVE Texts(_, _)
Texts(alphabet, n) ==
    IF n = 0 THEN {<<>>}
    ELSE Texts(alphabet, n - 1)
            \cup {Append(t, c) : t \in {u \in Texts(alphabet, n - 1) : Len(u) = n - 1},
                                 c \in alphabet}

\* Every lookup of the font alone, one lookup index past the end of the
\* lookup list, and lists of two lookups whose first changes the length.
ApplyLookupLists ==
    { << <<li, "liga">> >> : li \in 0..Len(LookupList) }
        \cup { << <<1, "liga">>, <<3, "liga">> >>, << <<3, "liga">>, <<1, "liga">> >>,
               << <<12, "liga">>, <<11, "liga">> >>, << <<10, "liga">>, <<0, "liga">> >> }

IterIdle ==
    /\ alternate_arg = None
    /\ prev_glyphs = <<>>
    /\ prev_cursor = 0
    /\ prev_length = 0

FracIdle ==
    /\ lookups_frac_arg = <<>>
    /\ windows = <<>>

PassIdle ==
    /\ previous_i = 0
    /\ calls = <<>>
    /\ font_glyphs = 0
    /\ FracIdle

BuildIdle ==
    /\ langsys = <<>>
    /\ bl_call = [fn |-> "none", feature_masks |-> {}, feature_tags |-> <<>>]
    /\ bl_result = Ok(<<>>)

CacheIdle ==
    /\ script_list = <<>>
    /\ gsub_cache = LayoutCache({}, {}, <<>>)
    /\ cache_before = LayoutCache({}, {}, <<>>)
    /\ last_call = [fn |-> "none"]
    /\ fresh = [st |-> "none"]

ApplyIdle ==
    /\ pc = "idle"
    /\ lookup_list = <<>>
    /\ lookup_pos = 0
    /\ win_start = 0
    /\ win_length = 0
    /\ cursor = 0
    /\ reason = ""
    /\ max_depth = 0
    /\ entry_len = 0
    /\ entry_length = 0
    /\ ideal_length = 0
    /\ dist_before = 0
    /\ tail = 0

\* gsub_apply_lookups_impl(lookups, glyphs, start, length) has been called
\* with a window inside the sequence.
InitApply ==
    /\ BuildIdle
    /\ CacheIdle
    /\ IterIdle
    /\ PassIdle
    /\ feature_list = <<>>
    /\ glyph_vec \in {MapGlyphs(t) : t \in Texts(ApplyAlphabet, MaxLen)}
    /\ overflow_checks \in BOOLEAN
    /\ lookup_list \in ApplyLookupLists
    /\ win_start \in 0..Len(glyph_vec)
    /\ win_length \in 0..(Len(glyph_vec) - win_start)
    /\ pc = "enter"
    /\ lookup_pos = 1
    /\ cursor = 0
    /\ reason = ""
    /\ max_depth = 0
    /\ entry_len = Len(glyph_vec)
    /\ entry_length = win_length
    /\ ideal_length = win_length
    /\ dist_before = 0
    /\ tail = Len(glyph_vec) - (win_start + win_length)

CurrentLookup == lookup_cache_gsub(lookup_list[lookup_pos][1]).val

\* gsub_apply_lookup is entered for lookup_list[lookup_pos]: the lookup is fetched
\* (gsub.rs:240) and its loop set up.
EnterLookup ==
    /\ pc = "enter"
    /\ lookup_pos <= Len(lookup_list)
    /\ \E r \in {lookup_cache_gsub(lookup_list[lookup_pos][1])} :
          IF r.ok
          THEN /\ pc' = "loop"
               /\ cursor' = LoopStart(r.val, win_start, win_length)
               /\ reason' = reason
          ELSE /\ pc' = "error"
               /\ cursor' = cursor
               /\ reason' = r.err
    /\ max_depth' = 0
    /\ entry_len' = Len(glyph_vec)
    /\ entry_length' = win_length
    /\ ideal_length' = win_length
    /\ dist_before' = 0
    /\ UNCHANGED <<buildvars, cachevars, sharedvars, itervars, passvars, lookup_list,
                   lookup_pos, win_start, win_length, tail>>

\* One iteration of the loop of the current lookup's kind.
Iterate ==
    /\ pc = "loop"
    /\ LoopCond(CurrentLookup, win_start, win_length, cursor, overflow_checks) = "run"
    /\ \E r \in {LoopIter(CurrentLookup, lookup_list[lookup_pos][2], alternate_arg, "any",
                            glyph_vec, win_start, win_length, cursor, overflow_checks)} :
          /\ glyph_vec' = r.glyphs
          /\ win_length' = r.length
          /\ cursor' = r.i
          /\ max_depth' = MaxOf(max_depth, r.depth)
          /\ ideal_length' = ideal_length + r.delta
          /\ pc' = IF r.st = "ok" THEN "loop" ELSE IF r.st = "err" THEN "error" ELSE "panic"
          /\ reason' = r.why
    /\ dist_before' = UsizeWrap(win_start + win_length) - cursor
    /\ prev_glyphs' = glyph_vec
    /\ prev_cursor' = cursor
    /\ prev_length' = win_length
    /\ UNCHANGED <<buildvars, cachevars, passvars, overflow_checks, alternate_arg, lookup_list,
                   lookup_pos, win_start, entry_len, entry_length, tail>>

\* The loop test fails: gsub_apply_lookup returns Ok(length), and
\* gsub_apply_lookups_impl goes on to the next lookup with that length.
ExitLoop ==
    /\ pc = "loop"
    /\ \E c \in {LoopCond(CurrentLookup, win_start, win_length, cursor, overflow_checks)} :
          /\ c # "run"
          /\ IF c = "panic"
             THEN pc' = "panic" /\ reason' = "arithmetic overflow" /\ lookup_pos' = lookup_pos
             ELSE pc' = "enter" /\ reason' = reason /\ lookup_pos' = lookup_pos + 1
    /\ UNCHANGED <<buildvars, cachevars, sharedvars, itervars, passvars, lookup_list,
                   win_start, win_length, cursor, max_depth, entry_len, entry_length,
                   ideal_length, dist_before, tail>>

\* The list is exhausted: gsub_apply_lookups_impl returns Ok(length).
ReturnLength ==
    /\ pc = "enter"
    /\ lookup_pos > Len(lookup_list)
    /\ pc' = "done"
    /\ UNCHANGED <<buildvars, cachevars, sharedvars, itervars, passvars, lookup_list,
                   lookup_pos, win_start, win_length, cursor, reason, max_depth, entry_len,
                   entry_length, ideal_length, dist_before, tail>>

NextApply == EnterLookup \/ Iterate \/ ExitLoop \/ ReturnLength

SpecApply == InitApply /\ [][NextApply]_vars

\* The window end as the loop test computes it.
WindowEnd == UsizeWrap(win_start + win_length)

\* An iteration of the current loop has completed.
Iterated == pc = "loop" /\ dist_before > 0

\* The last gsub_apply_lookup call has returned Ok(length).
Returned == pc \in {"enter", "done"} /\ lookup_pos > 1

\* C4: a chain of nested Context/ChainContext applications that reaches a
\* third nested level ends in the error LimitExceeded and in nothing else
\* (no panic, no further level), and LimitExceeded is reported only there:
\* chains of at most two nested levels are not stopped by the limit.
C4_ThirdNestedLevelIsLimitExceeded ==
    /\ max_depth <= 3
    /\ max_depth = 3 => (pc = "error" /\ reason = "LimitExceeded")
    /\ reason = "LimitExceeded" => (pc = "error" /\ max_depth = 3)

C4_Witness ==
    /\ pc = "error"
    /\ reason = "LimitExceeded"
    /\ max_depth = 3
    /\ lookup_list[lookup_pos][1] \in {4, 8}

\* A chain two nested levels deep has gone through.
C4_WitnessTwoLevels ==
    /\ pc = "done"
    /\ max_depth = 2
    /\ lookup_list[1][1] = 5

\* C5: in the loops of the variable-width kinds every completed iteration
\* leaves the cursor strictly closer to the window end than it was, and
\* nested context application never goes past the level the limit rejects.
C5_DistanceToWindowEndDecreases ==
    /\ max_depth <= SUBST_RECURSION_LIMIT + 1
    /\ (Iterated /\ IsVariableWidth(CurrentLookup)) => WindowEnd - cursor < dist_before

\* The same in a build with overflow checks.
C5_DistanceDecreasesWithOverflowChecks ==
    overflow_checks => C5_DistanceToWindowEndDecreases

C5_WitnessDeletion ==
    /\ Iterated
    /\ CurrentLookup.kind = "MultipleSubst"
    /\ Len(glyph_vec) < entry_len
    /\ WindowEnd - cursor < dist_before

\* C6: the window length is the entry length plus the deltas the executors
\* reported, as an integer: when that sum is negative the call has stopped
\* with a panic, and otherwise the length is that sum, neither wrapped
\* around nor clamped.
C6_LengthAdjustedChecked ==
    /\ ideal_length < 0 => pc = "panic"
    /\ pc \in {"loop", "enter", "done"} => win_length = ideal_length

C6_LengthCheckedWithOverflowChecks ==
    overflow_checks => C6_LengthAdjustedChecked

\* The context kinds alone: their adjustment is checked in every build.
C6_ContextLengthChecked ==
    (pc \in {"loop", "panic"} /\ CurrentLookup.kind \in {"ContextSubst", "ChainContextSubst"})
        => C6_LengthAdjustedChecked

C6_WitnessContextPanic ==
    /\ pc = "panic"
    /\ CurrentLookup.kind = "ContextSubst"
    /\ ideal_length < 0
    /\ reason = "called Option::unwrap() on a None value"

\* C7: when gsub_apply_lookup has returned, the returned length differs from
\* the length passed in by exactly the change of the sequence length, and
\* start + length still ends where the window ended, counted from the end
\* of the sequence.
C7_ReturnedLengthTracksSequence ==
    Returned =>
        /\ win_length - entry_length = Len(glyph_vec) - entry_len
        /\ win_start + win_length = Len(glyph_vec) - tail

C7_ReturnedLengthWithOverflowChecks ==
    overflow_checks => C7_ReturnedLengthTracksSequence

C7_WitnessThreaded ==
    /\ pc = "done"
    /\ Len(lookup_list) = 2
    /\ win_length # entry_length
    /\ Len(glyph_vec) - tail # win_start + entry_length

\* The current gsub_apply_lookup call was entered with its window inside
\* the sequence.
EnteredInside == win_start + entry_length <= entry_len

\* C28: a gsub_apply_lookup call entered with start + length <= glyphs.len()
\* keeps start + length <= glyphs.len() after every step, for every subtable
\* kind, and never reads a glyph at an index past the end of the sequence,
\* also when a ligature or a nested substitution removes glyphs that lie
\* behind the window end.
C28_WindowStaysInsideTheSequence ==
    EnteredInside =>
        /\ pc \in {"loop", "enter", "done"} => win_start + win_length <= Len(glyph_vec)
        /\ reason # "index out of bounds"

\* The same in a build with overflow checks.
C28_WindowInsideWithOverflowChecks ==
    overflow_checks => C28_WindowStaysInsideTheSequence

\* A ligature has removed a glyph behind the window end and the window is
\* still inside the sequence.
C28_RemovedBehindWindow ==
    /\ pc = "loop"
    /\ EnteredInside
    /\ CurrentLookup.kind = "LigatureSubst"
    /\ Len(glyph_vec) < entry_len
    /\ win_length = 0
    /\ entry_length = 1
    /\ win_start + win_length <= Len(glyph_vec)

\* In a build without overflow checks the loop has read past the end.
C28_ReadPastTheEnd ==
    /\ EnteredInside
    /\ pc = "panic"
    /\ reason = "index out of bounds"
    /\ ~overflow_checks

\* C29: in apply_subst_context the span of the matched input sequence plus
\* the sum of the length changes of the nested substitutions is never
\* negative, whatever the table and the sequence: the panic
\* "apply_subst_context: len < 0" is not reached.
C29_ContextLengthNeverNegative ==
    reason # "apply_subst_context: len < 0"

\* A context rule whose nested substitutions changed the length has been
\* applied and the sum was not negative.
C29_ContextChangedLength ==
    /\ pc = "loop"
    /\ Iterated
    /\ CurrentLookup.kind \in {"ContextSubst", "ChainContextSubst"}
    /\ Len(glyph_vec) # Len(prev_glyphs)

\* The last iteration of a variable-width loop substituted something.
Substituted ==
    /\ Iterated
    /\ IsVariableWidth(CurrentLookup)
    /\ glyph_vec # prev_glyphs

\* The glyphs without their liga_component_pos, which a ligature also
\* records in the marks that follow it.
RECURSIVE Unplaced(_)
Unplaced(glyphs) ==
    IF glyphs = <<>> THEN <<>>
    ELSE <<[Head(glyphs) EXCEPT !.liga_component_pos = 0]>> \o Unplaced(Tail(glyphs))

\* The glyphs from the cursor on are glyphs the pass has not seen: they are
\* the last glyphs of the sequence as it was before the iteration, all of
\* them behind the glyph the iteration began at, and none of them was
\* substituted.
UnseenAhead ==
    LET ahead == Len(glyph_vec) - cursor
    IN /\ ahead >= 0
       /\ ahead < Len(prev_glyphs) - prev_cursor
       /\ Unplaced(SubSeq(glyph_vec, cursor + 1, Len(glyph_vec)))
             = Unplaced(SubSeq(prev_glyphs, Len(prev_glyphs) - ahead + 1, Len(prev_glyphs)))

\* C30: in a pass of a variable-width lookup the cursor advances by the
\* width the executor reports, so that the glyphs a substitution produced
\* are not examined again by the same pass: after a Multiple substitution,
\* a Ligature (with the ignored glyphs it passed over) or a Context or
\* ChainContext rule, the cursor stands behind everything that was
\* rewritten.
C30_ProducedGlyphsAreSkipped ==
    Substituted => UnseenAhead

\* The same in a build with overflow checks.
C30_ProducedSkippedWithOverflowChecks ==
    overflow_checks => C30_ProducedGlyphsAreSkipped

\* The same for the Multiple and Ligature kinds alone.
C30_MultipleAndLigatureSkipped ==
    (Substituted /\ CurrentLookup.kind \in {"MultipleSubst", "LigatureSubst"}) => UnseenAhead

\* A Multiple substitution put several glyphs in and the cursor is behind
\* them.
C30_InsertedGlyphsSkipped ==
    /\ Substituted
    /\ CurrentLookup.kind = "MultipleSubst"
    /\ Len(glyph_vec) = Len(prev_glyphs) + 2
    /\ cursor = prev_cursor + 3
    /\ UnseenAhead

\* An iteration of the reversed loop of the current lookup has run.
ReverseStepped ==
    /\ pc = "loop"
    /\ IsReverse(CurrentLookup)
    /\ cursor < win_start + win_length

GlyphIds(glyphs) == [n \in 1..Len(glyphs) |-> glyphs[n].glyph_index]

\* C33: a ReverseChainSingleSubst lookup visits the positions of the window
\* from the last to the first: every iteration examines the position just
\* before the one examined last, tests the context on the sequence as the
\* iterations at the greater positions left it, changes nothing but the
\* glyph at its position, never changes the length, and gives a replaced
\* glyph the origin Direct.
C33_ReverseVisitsBackToFront ==
    /\ (pc = "loop" /\ IsReverse(CurrentLookup)) =>
          (win_start <= cursor /\ cursor <= win_start + win_length)
    /\ ReverseStepped =>
          /\ cursor = prev_cursor - 1
          /\ prev_cursor <= win_start + win_length
          /\ Len(glyph_vec) = Len(prev_glyphs)
          /\ win_length = prev_length
          /\ \A j \in 0..(Len(glyph_vec) - 1) :
                j # cursor => At(glyph_vec, j) = At(prev_glyphs, j)
          /\ At(glyph_vec, cursor) # At(prev_glyphs, cursor) =>
                /\ At(glyph_vec, cursor).glyph_origin = Direct
                /\ At(glyph_vec, cursor).glyph_index
                      = reversechainsinglesubst_would_apply(CurrentLookup.subtables,
                            MatchType_from_lookup_flag(CurrentLookup.lookup_flag), cursor,
                            prev_glyphs)
          /\ At(glyph_vec, cursor) = At(prev_glyphs, cursor) =>
                ~gsub_lookup_would_apply(CurrentLookup, prev_glyphs, cursor)

\* b b b under "b -> 6 before a b": the middle b is replaced first, and the
\* first b then stands before a 6 and is kept.
C33_ContextSeesSubstitutedGlyph ==
    /\ pc = "done"
    /\ lookup_list = << <<11, "liga">> >>
    /\ win_start = 0
    /\ win_length = 3
    /\ GlyphIds(glyph_vec) = <<Some(2), Some(6), Some(2)>>
    /\ glyph_vec[2].glyph_origin = Direct

\* ========================================================================
\* SpecExec: gsub_apply_lookup called directly (any feature tag, any
\* alternate), and short lists through gsub_apply_lookups_impl
\* ========================================================================

MaxExecLen == 3

\* One lookup with the tag and the alternate the caller passes, and lists of
\* two lookups the second of which meets what the first left.
ExecCalls ==
    { [lookups |-> << <<li, tag>> >>, alternate |-> None] :
          li \in {0, 1, 3, 9, 10, 12, 16}, tag \in {"liga", "vert", "vrt2"} }
        \cup { [lookups |-> << <<2, "salt">> >>, alternate |-> a] :
                  a \in {None, Some(0), Some(1), Some(2)} }
        \cup { [lookups |-> l, alternate |-> None] :
                  l \in { << <<0, "vert">>, <<14, "liga">> >>, << <<0, "liga">>, <<14, "vrt2">> >>,
                          << <<1, "liga">>, <<1, "liga">> >>, << <<3, "liga">>, <<1, "liga">> >>,
                          << <<1, "liga">>, <<3, "liga">> >> } }

InitExec ==
    /\ BuildIdle
    /\ CacheIdle
    /\ PassIdle
    /\ feature_list = <<>>
    /\ glyph_vec \in {MapGlyphs(t) : t \in Texts(ApplyAlphabet, MaxExecLen)}
    /\ overflow_checks \in BOOLEAN
    /\ \E c \in ExecCalls : lookup_list = c.lookups /\ alternate_arg = c.alternate
    /\ win_start \in 0..Len(glyph_vec)
    /\ win_length \in 0..(Len(glyph_vec) - win_start)
    /\ pc = "enter"
    /\ lookup_pos = 1
    /\ cursor = 0
    /\ reason = ""
    /\ max_depth = 0
    /\ entry_len = Len(glyph_vec)
    /\ entry_length = win_length
    /\ ideal_length = win_length
    /\ dist_before = 0
    /\ tail = Len(glyph_vec) - (win_start + win_length)
    /\ prev_glyphs = <<>>
    /\ prev_cursor = 0
    /\ prev_length = 0

SpecExec == InitExec /\ [][NextApply]_vars

\* The last loop step of the current gsub_apply_lookup call was an iteration
\* of a loop of the given kind.
IterationOf(kind) ==
    /\ pc \in {"loop", "panic", "error"}
    /\ dist_before > 0
    /\ CurrentLookup.kind = kind

\* The glyph that iteration examined, and the feature tag it ran under.
Examined == At(prev_glyphs, prev_cursor)
ActiveTag == lookup_list[lookup_pos][2]

\* The coverage entries of the current lookup for the examined glyph, when the
\* lookup sees the glyph at all.
CoverEntries ==
    {n \in 1..Len(CurrentLookup.subtables) :
        /\ prev_cursor < Len(prev_glyphs)
        /\ match_glyph(MatchType_from_lookup_flag(CurrentLookup.lookup_flag), Examined)
        /\ IsSome(Examined.glyph_index)
        /\ CurrentLookup.subtables[n][1] = Unwrap(Examined.glyph_index)}

\* What the first covering entry maps the examined glyph to.
Mapped ==
    CurrentLookup.subtables[CHOOSE n \in CoverEntries : \A k \in CoverEntries : n <= k][2]

\* Every glyph but those at the positions of S, in order.
RECURSIVE Without(_, _, _)
Without(glyphs, S, j) ==
    IF j >= Len(glyphs) THEN <<>>
    ELSE (IF j \in S THEN <<>> ELSE <<At(glyphs, j)>>) \o Without(glyphs, S, j + 1)

\* C14: a Single substitution at a covered position keeps the length, gives
\* that position the mapped glyph and origin Direct, sets is_vert_alt exactly
\* under the tags vert and vrt2, and changes nothing else.
C14_SingleSubstReplacesInPlace ==
    (IterationOf("SingleSubst") /\ CoverEntries # {}) =>
        /\ pc = "loop"
        /\ Len(glyph_vec) = Len(prev_glyphs)
        /\ Without(glyph_vec, {prev_cursor}, 0) = Without(prev_glyphs, {prev_cursor}, 0)
        /\ At(glyph_vec, prev_cursor) =
              [Examined EXCEPT !.glyph_index = Some(Mapped),
                               !.glyph_origin = Direct,
                               !.is_vert_alt = (ActiveTag \in {"vert", "vrt2"}) \/ @]

\* A glyph tagged vertical earlier is substituted under another tag and
\* stays tagged.
C14_Witness ==
    /\ IterationOf("SingleSubst")
    /\ CoverEntries # {}
    /\ ActiveTag = "liga"
    /\ Examined.is_vert_alt
    /\ At(glyph_vec, prev_cursor).glyph_index = Some(6)

C14_WitnessNotVertical ==
    /\ IterationOf("SingleSubst")
    /\ CoverEntries # {}
    /\ ActiveTag = "liga"
    /\ ~At(glyph_vec, prev_cursor).is_vert_alt
    /\ At(glyph_vec, prev_cursor).glyph_origin = Direct

\* C15: a Multiple substitution with an empty sequence table removes the
\* examined glyph and nothing else, without a fault: the sequence and the
\* window are one shorter and the cursor has not moved.
C15_EmptySequenceRemovesGlyph ==
    (IterationOf("MultipleSubst") /\ CoverEntries # {} /\ Mapped = <<>>) =>
        /\ pc = "loop"
        /\ glyph_vec = Without(prev_glyphs, {prev_cursor}, 0)
        /\ Len(glyph_vec) = Len(prev_glyphs) - 1
        /\ win_length = prev_length - 1
        /\ cursor = prev_cursor

\* A glyph between two others is removed.
C15_Witness ==
    /\ IterationOf("MultipleSubst")
    /\ CoverEntries # {}
    /\ Mapped = <<>>
    /\ 0 < prev_cursor
    /\ prev_cursor < Len(glyph_vec)
    /\ Len(glyph_vec) = Len(prev_glyphs) - 1

\* C16: a Multiple substitution 1 to N, N >= 1, puts substitute 0 at the
\* position (origin Direct, the rest of the glyph as it was) and substitutes
\* 1..N-1 behind it in table order, each a copy of the original glyph marked
\* multi_subst_dup; the glyphs before and behind keep order and content.
C16_MultipleSubstInsertsInOrder ==
    (IterationOf("MultipleSubst") /\ CoverEntries # {} /\ Mapped # <<>>) =>
        /\ Len(glyph_vec) = Len(prev_glyphs) + Len(Mapped) - 1
        /\ SubSeq(glyph_vec, 1, prev_cursor) = SubSeq(prev_glyphs, 1, prev_cursor)
        /\ SubSeq(glyph_vec, prev_cursor + Len(Mapped) + 1, Len(glyph_vec))
              = SubSeq(prev_glyphs, prev_cursor + 2, Len(prev_glyphs))
        /\ At(glyph_vec, prev_cursor) =
              [Examined EXCEPT !.glyph_index = Some(Mapped[1]), !.glyph_origin = Direct]
        /\ \A j \in 1..(Len(Mapped) - 1) :
              /\ At(glyph_vec, prev_cursor + j).glyph_index = Some(Mapped[j + 1])
              /\ At(glyph_vec, prev_cursor + j).multi_subst_dup
              /\ \A field \in {"unicodes", "small_caps", "is_vert_alt", "fake_bold",
                                "fake_italic", "extra_data"} :
                    At(glyph_vec, prev_cursor + j)[field] = Examined[field]

\* One glyph becomes three, and a duplicate becomes three in a second pass.
C16_Witness ==
    /\ IterationOf("MultipleSubst")
    /\ CoverEntries # {}
    /\ Len(Mapped) = 3
    /\ Examined.multi_subst_dup
    /\ At(glyph_vec, prev_cursor).multi_subst_dup
    /\ Len(glyph_vec) = Len(prev_glyphs) + 2

\* Three different substitutes stand in table order between two glyphs.
C16_WitnessInOrder ==
    /\ IterationOf("MultipleSubst")
    /\ CoverEntries # {}
    /\ Mapped = <<5, 6, 7>>
    /\ 0 < prev_cursor
    /\ At(glyph_vec, prev_cursor + 1).glyph_index = Some(6)
    /\ At(glyph_vec, prev_cursor + 2).glyph_index = Some(7)
    /\ Len(glyph_vec) > prev_cursor + 3

\* The positions behind the examined one that the current lookup sees, and
\* the first k of them.
VisibleBehind ==
    {j \in (prev_cursor + 1)..(Len(prev_glyphs) - 1) :
        match_glyph(MatchType_from_lookup_flag(CurrentLookup.lookup_flag), At(prev_glyphs, j))}
FirstVisible(k) ==
    {j \in VisibleBehind : Cardinality({h \in VisibleBehind : h <= j}) <= k}

\* The covering ligatures whose components are the first visible glyphs
\* behind the examined one, in order.
LigatureHits ==
    {n \in CoverEntries :
        LET comps == CurrentLookup.subtables[n][2].component_glyphs
        IN /\ Cardinality(VisibleBehind) >= Len(comps)
           /\ \A j \in FirstVisible(Len(comps)) :
                 At(prev_glyphs, j).glyph_index
                     = Some(comps[Cardinality({h \in VisibleBehind : h <= j})])}
TheLigature ==
    CurrentLookup.subtables[CHOOSE n \in LigatureHits : \A k \in LigatureHits : n <= k][2]

\* The unicodes of the glyphs at the positions of S, concatenated in order.
RECURSIVE UnicodesAt(_, _, _)
UnicodesAt(glyphs, S, j) ==
    IF j >= Len(glyphs) THEN <<>>
    ELSE (IF j \in S THEN At(glyphs, j).unicodes ELSE <<>>) \o UnicodesAt(glyphs, S, j + 1)

\* C17: a ligature of k components applied at position i removes the first k
\* visible glyphs behind i, leaves the ligature glyph at i with origin Direct
\* and the unicodes of trigger and components in sequence order, keeps every
\* other glyph in order, and reports k removed and the number of ignored
\* glyphs passed over (seen in the cursor and the window length).
C17_LigatureMergesComponents ==
    (IterationOf("LigatureSubst") /\ LigatureHits # {}) =>
        LET k == Len(TheLigature.component_glyphs)
            comps == FirstVisible(k)
            last == CHOOSE j \in comps : \A h \in comps : h <= j
        IN /\ k >= 1
           /\ Len(glyph_vec) = Len(prev_glyphs) - k
           /\ At(glyph_vec, prev_cursor).glyph_index = Some(TheLigature.ligature_glyph)
           /\ At(glyph_vec, prev_cursor).glyph_origin = Direct
           /\ At(glyph_vec, prev_cursor).unicodes
                 = UnicodesAt(prev_glyphs, {prev_cursor} \cup comps, 0)
           /\ Unplaced(Without(glyph_vec, {prev_cursor}, 0))
                 = Unplaced(Without(prev_glyphs, {prev_cursor} \cup comps, 0))
           /\ pc = "loop" =>
                 /\ cursor = prev_cursor + (last - prev_cursor - k) + 1
                 /\ win_length = UsizeWrap(prev_length - k)

\* a m b: the two letters become the ligature, the mark passed over stays.
C17_Witness ==
    /\ IterationOf("LigatureSubst")
    /\ LigatureHits # {}
    /\ pc = "loop"
    /\ Len(TheLigature.component_glyphs) = 1
    /\ At(glyph_vec, prev_cursor).unicodes = <<"a", "b">>
    /\ cursor = prev_cursor + 2
    /\ Len(glyph_vec) = 2

\* [X, Y]: length 1, unicodes concat(X, Y).
C17_WitnessPair ==
    /\ IterationOf("LigatureSubst")
    /\ Len(prev_glyphs) = 2
    /\ Len(glyph_vec) = 1
    /\ glyph_vec[1].unicodes = <<"a", "b">>

\* C18: no call ends in the panic "ran out of glyphs", whether the ligature
\* is applied by the top-level loop or inside a context rule.
C18_NeverRunsOutOfGlyphs ==
    reason # "ran out of glyphs"

\* A ligature applied inside a context rule, past a mark.
C18_Witness ==
    /\ IterationOf("ContextSubst")
    /\ pc = "loop"
    /\ At(glyph_vec, prev_cursor).glyph_index = Some(8)
    /\ Len(glyph_vec) = Len(prev_glyphs) - 1
    /\ Len(glyph_vec) > prev_cursor + 1
    /\ At(glyph_vec, prev_cursor + 1).glyph_index = Some(4)

C18_WitnessTopLevel ==
    /\ IterationOf("LigatureSubst")
    /\ pc = "loop"
    /\ At(glyph_vec, prev_cursor).glyph_index = Some(9)

\* C19: AlternateSubst puts the alternate at the caller's index (0 when the
\* caller gave none) at the position, with origin Direct; with an index not
\* below the size of the alternate set nothing changes and nothing fails.
C19_AlternateOutOfRangeIsNoOp ==
    (IterationOf("AlternateSubst") /\ CoverEntries # {}) =>
        LET index == IF IsSome(alternate_arg) THEN Unwrap(alternate_arg) ELSE 0
        IN /\ pc = "loop"
           /\ index < Len(Mapped) =>
                 glyph_vec = SetAt(prev_glyphs, prev_cursor,
                                  [Examined EXCEPT !.glyph_index = Some(Mapped[index + 1]),
                                                   !.glyph_origin = Direct])
           /\ index >= Len(Mapped) => glyph_vec = prev_glyphs

\* Index 2 into a set of two alternates.
C19_Witness ==
    /\ IterationOf("AlternateSubst")
    /\ CoverEntries # {}
    /\ alternate_arg = Some(2)
    /\ Len(Mapped) = 2
    /\ glyph_vec = prev_glyphs
    /\ pc = "loop"

C19_WitnessSecondAlternate ==
    /\ IterationOf("AlternateSubst")
    /\ alternate_arg = Some(1)
    /\ At(glyph_vec, prev_cursor).glyph_index = Some(6)

\* ------------------------------------------------------------------------
\* Nested lookup records whose position does not exist
\* ------------------------------------------------------------------------

\* The rule of the current context lookup that the last iteration applied.
AppliedRule ==
    IF CurrentLookup.kind = "ContextSubst"
    THEN contextsubst_would_apply(CurrentLookup.subtables,
             MatchType_from_lookup_flag(CurrentLookup.lookup_flag), prev_cursor, prev_glyphs)
    ELSE chaincontextsubst_would_apply(CurrentLookup.subtables,
             MatchType_from_lookup_flag(CurrentLookup.lookup_flag), prev_cursor, prev_glyphs)

ContextApplied ==
    /\ pc \in {"loop", "panic", "error"}
    /\ dist_before > 0
    /\ CurrentLookup.kind \in {"ContextSubst", "ChainContextSubst"}
    /\ prev_cursor < Len(prev_glyphs)
    /\ match_glyph(MatchType_from_lookup_flag(CurrentLookup.lookup_flag),
                   At(prev_glyphs, prev_cursor))
    /\ IsSome(AppliedRule)

\* The nested lookup records of a rule applied in listed order from record
\* n on: a record whose sequence index has no visible glyph on the sequence
\* as the earlier records left it is passed over, every other record is
\* applied at the glyph found by counting visible glyphs from i.
RECURSIVE NestedInOrder(_, _, _, _, _)
NestedInOrder(match_type, lookup_array, n, i, glyphs) ==
    IF n > Len(lookup_array) THEN [st |-> "ok", glyphs |-> glyphs, passed |-> {}]
    ELSE IF ~lookup_cache_gsub(lookup_array[n][2]).ok
    THEN [st |-> "err", glyphs |-> glyphs, passed |-> {}]
    ELSE IF ~IsSome(find_nth(match_type, glyphs, i, lookup_array[n][1]))
    THEN Let(NestedInOrder(match_type, lookup_array, n + 1, i, glyphs),
             LAMBDA rest : [rest EXCEPT !.passed = @ \cup {n}])
    ELSE Let(apply_subst(SUBST_RECURSION_LIMIT, match_type, lookup_array[n][1],
                         lookup_array[n][2], ActiveTag, glyphs, i, 1),
             LAMBDA r :
                 IF r.st # "ok" THEN [st |-> r.st, glyphs |-> r.glyphs, passed |-> {}]
                 ELSE NestedInOrder(match_type, lookup_array, n + 1, i, r.glyphs))

NestedExpected ==
    NestedInOrder(MatchType_from_lookup_flag(CurrentLookup.lookup_flag),
                  Unwrap(AppliedRule).lookup_array, 1, prev_cursor, prev_glyphs)

\* The rules of the font's context lookups.
ContextRules ==
    UNION { {<<LookupList[li].lookup_flag, LookupList[li].subtables[n]>> :
                n \in 1..Len(LookupList[li].subtables)} :
            li \in {k \in 1..Len(LookupList) :
                        LookupList[k].kind \in {"ContextSubst", "ChainContextSubst"}} }

\* C32: a nested lookup record whose sequence index lies past the last
\* visible glyph is passed over without an error and without a change, and
\* the records after it are still applied in listed order, each at the
\* glyph found by counting visible glyphs on the sequence as it is by then;
\* apply_subst_context called where fewer visible glyphs remain than the
\* rule's input sequence is long returns Ok(None) and changes nothing.
C32_MissingPositionIsNoMatch ==
    /\ ContextApplied =>
          /\ pc = "error" <=> NestedExpected.st = "err"
          /\ pc = "loop" => glyph_vec = NestedExpected.glyphs
    /\ \A cr \in ContextRules, j \in 0..(Len(glyph_vec) - 1) :
          ~IsSome(find_nth(MatchType_from_lookup_flag(cr[1]), glyph_vec, j, Len(cr[2].input)))
              => Let(apply_subst_context(SUBST_RECURSION_LIMIT, "liga",
                                         MatchType_from_lookup_flag(cr[1]), cr[2], j,
                                         glyph_vec, 1),
                     LAMBDA o : o.st = "ok" /\ o.val = None /\ o.glyphs = glyph_vec)

\* The first record of lookup 16 found no glyph after the last a; the
\* second record was still applied and turned the a into 5.
C32_LaterRecordStillApplied ==
    /\ ContextApplied
    /\ pc = "loop"
    /\ lookup_list[lookup_pos][1] = 16
    /\ NestedExpected.passed = {1}
    /\ prev_cursor = Len(prev_glyphs) - 1
    /\ At(glyph_vec, prev_cursor).glyph_index = Some(5)

\* The second record of lookup 12 found no glyph on the sequence the first
\* record had shortened.
C32_CountedOnMutatedSequence ==
    /\ ContextApplied
    /\ pc = "loop"
    /\ lookup_list[lookup_pos][1] = 12
    /\ NestedExpected.passed = {2}
    /\ Len(glyph_vec) = Len(prev_glyphs) - 1

\* ========================================================================
\* SpecFinish: strip_joiners and replace_missing_glyphs, the last two steps
\* of gsub_apply_default, on the sequence the pipelines leave
\* ========================================================================

MaxFinishLen == 3

\* Glyphs as shaping leaves them: mapped from a character, mapped from a
\* joiner, without a glyph in the font, and substituted glyphs that carry
\* every flag.
FinishGlyphs ==
    { MapGlyph("a"), MapGlyph("ZWJ"),
      [MapGlyph("c") EXCEPT !.glyph_index = None],
      [MapGlyph("b") EXCEPT !.glyph_index = Some(0), !.glyph_origin = Direct],
      [unicodes |-> <<"a", "b">>, glyph_index |-> Some(9), liga_component_pos |-> 1,
       glyph_origin |-> Direct, small_caps |-> TRUE, multi_subst_dup |-> TRUE,
       is_vert_alt |-> TRUE, fake_bold |-> TRUE, fake_italic |-> TRUE,
       variation |-> Some("VS15"), extra_data |-> "unit"] }

RECURSIVE GlyphSeqs(_, _)
GlyphSeqs(glyph_set, n) ==
    IF n = 0 THEN {<<>>}
    ELSE GlyphSeqs(glyph_set, n - 1)
            \cup {Append(s, g) : s \in {u \in GlyphSeqs(glyph_set, n - 1) : Len(u) = n - 1},
                                 g \in glyph_set}

InitFinish ==
    /\ BuildIdle
    /\ CacheIdle
    /\ ApplyIdle
    /\ IterIdle
    /\ feature_list = <<>>
    /\ overflow_checks = TRUE
    /\ previous_i = 0
    /\ calls = <<>>
    /\ glyph_vec \in GlyphSeqs(FinishGlyphs, MaxFinishLen)
    /\ font_glyphs \in {0, 1, 9, 10, 15}
    /\ FracIdle

otherThanFinish ==
    <<buildvars, cachevars, overflow_checks, lookup_list, lookup_pos, win_start, win_length,
      cursor, reason, max_depth, entry_len, entry_length, ideal_length, dist_before, tail,
      alternate_arg, prev_cursor, prev_length, passvars>>

\* strip_joiners(glyphs)
StripJoiners ==
    /\ pc = "idle"
    /\ glyph_vec' = strip_joiners(glyph_vec)
    /\ prev_glyphs' = prev_glyphs
    /\ pc' = "stripped"
    /\ UNCHANGED otherThanFinish

\* replace_missing_glyphs(glyphs, num_glyphs)
ReplaceMissingGlyphs ==
    /\ pc = "stripped"
    /\ glyph_vec' = replace_missing_glyphs(glyph_vec, font_glyphs)
    /\ prev_glyphs' = glyph_vec
    /\ pc' = "done"
    /\ UNCHANGED otherThanFinish

NextFinish == StripJoiners \/ ReplaceMissingGlyphs

SpecFinish == InitFinish /\ [][NextFinish]_vars

\* What replace_missing_glyphs did to the sequence it was given, glyph by
\* glyph: a glyph with a resolved index of num_glyphs or more is now glyph 0
\* with empty unicodes, origin Direct and no flag set, every other glyph is
\* as it was, and the length is as it was.
MissingReplacedOthersKept ==
    /\ Len(glyph_vec) = Len(prev_glyphs)
    /\ \A n \in 1..Len(prev_glyphs) :
          IF IsSome(prev_glyphs[n].glyph_index)
                /\ Unwrap(prev_glyphs[n].glyph_index) >= font_glyphs
          THEN /\ glyph_vec[n].glyph_index = Some(0)
               /\ glyph_vec[n].unicodes = <<>>
               /\ glyph_vec[n].glyph_origin = Direct
               /\ \A flag \in {"small_caps", "multi_subst_dup", "is_vert_alt", "fake_bold",
                                "fake_italic"} : ~glyph_vec[n][flag]
          ELSE glyph_vec[n] = prev_glyphs[n]

NoneOutOfRange ==
    \A n \in 1..Len(glyph_vec) :
        IsSome(glyph_vec[n].glyph_index) => Unwrap(glyph_vec[n].glyph_index) < font_glyphs

\* C12, as claimed: for every sequence and every num_glyphs, after
\* replace_missing_glyphs no glyph has a resolved index of num_glyphs or more,
\* the glyphs that had one are glyph 0 with empty unicodes, origin Direct and
\* no flag set, and everything else is unchanged.
C12_NoneOutOfRangeForEveryNumGlyphs ==
    pc = "done" => (NoneOutOfRange /\ MissingReplacedOthersKept)

\* C12, amended: the same for every num_glyphs of at least 1; with
\* num_glyphs = 0 every glyph with a resolved index ends as glyph 0, which
\* is itself not below num_glyphs.
C12_NoneOutOfRangeForNonEmptyFont ==
    pc = "done" =>
        /\ MissingReplacedOthersKept
        /\ font_glyphs >= 1 => NoneOutOfRange
        /\ font_glyphs = 0 =>
              \A n \in 1..Len(glyph_vec) :
                  IsSome(glyph_vec[n].glyph_index) => glyph_vec[n].glyph_index = Some(0)

\* A glyph whose index is exactly num_glyphs is replaced between two glyphs
\* that are kept, one of them without an index.
C12_Witness ==
    /\ pc = "done"
    /\ font_glyphs = 9
    /\ Len(glyph_vec) = 3
    /\ prev_glyphs[2].glyph_index = Some(9)
    /\ glyph_vec[2].glyph_index = Some(0)
    /\ glyph_vec[1].glyph_index = None
    /\ glyph_vec[3] = MapGlyph("a")

\* ========================================================================
\* SpecArabic: the joining-state pass of gsub_apply_arabic (arabic.rs:103-166)
\* ========================================================================

MaxArabicLen == 3

JoiningTypes ==
    {"LeftJoining", "DualJoining", "JoinCausing", "RightJoining", "NonJoining", "Transparent"}

ArabicData(joining_type, feature_tag) ==
    [joining_type |-> joining_type, feature_tag |-> feature_tag]

\* ArabicGlyph::from(raw_glyph), for a character of the given joining type.
ArabicGlyph_from(raw_glyph, char_joining_type) ==
    [raw_glyph EXCEPT !.extra_data =
        ArabicData(IF raw_glyph.glyph_origin = Direct THEN "NonJoining" ELSE char_joining_type,
                   "isol")]

\* Only the Transparent glyphs are skipped.
should_skip_transparent_only(arabic_glyph) ==
    arabic_glyph.extra_data.joining_type = "Transparent"

should_skip(arabic_glyph) ==
    \/ arabic_glyph.extra_data.joining_type = "Transparent"
    \/ arabic_glyph.multi_subst_dup

SetFeatureTag(glyphs, i, feature_tag) ==
    SetAt(glyphs, i, [At(glyphs, i) EXCEPT !.extra_data.feature_tag = feature_tag])

FeatureTagAt(glyphs, i) == At(glyphs, i).extra_data.feature_tag
JoiningTypeAt(glyphs, i) == At(glyphs, i).extra_data.joining_type

\* The first index whose glyph is not skipped, or 0.
first_previous_i(glyphs) ==
    IF \E n \in 1..Len(glyphs) : ~should_skip(glyphs[n])
    THEN (CHOOSE n \in 1..Len(glyphs) :
              /\ ~should_skip(glyphs[n])
              /\ \A k \in 1..(n - 1) : should_skip(glyphs[k])) - 1
    ELSE 0

\* A previous glyph tagged FINA stays FINA when the next one joins it.
joining_state_no_medi(glyphs, prev, i) ==
    IF should_skip(At(glyphs, i)) THEN glyphs
    ELSE IF JoiningTypeAt(glyphs, prev) \in {"LeftJoining", "DualJoining", "JoinCausing"}
    THEN IF JoiningTypeAt(glyphs, i) \in {"RightJoining", "DualJoining", "JoinCausing"}
         THEN IF FeatureTagAt(glyphs, prev) = "isol"
              THEN SetFeatureTag(SetFeatureTag(glyphs, i, "fina"), prev, "init")
              ELSE SetFeatureTag(glyphs, i, "fina")
         ELSE IF JoiningTypeAt(glyphs, i) \in {"LeftJoining", "NonJoining"}
         THEN IF FeatureTagAt(glyphs, prev) = "medi"
              THEN SetFeatureTag(SetFeatureTag(glyphs, i, "isol"), prev, "fina")
              ELSE IF FeatureTagAt(glyphs, prev) = "init"
              THEN SetFeatureTag(SetFeatureTag(glyphs, i, "isol"), prev, "isol")
              ELSE SetFeatureTag(glyphs, i, "isol")
         ELSE glyphs
    ELSE IF JoiningTypeAt(glyphs, prev) \in {"RightJoining", "NonJoining"}
    THEN IF FeatureTagAt(glyphs, prev) = "medi"
         THEN SetFeatureTag(SetFeatureTag(glyphs, i, "isol"), prev, "fina")
         ELSE IF FeatureTagAt(glyphs, prev) = "init"
         THEN SetFeatureTag(SetFeatureTag(glyphs, i, "isol"), prev, "isol")
         ELSE SetFeatureTag(glyphs, i, "isol")
    ELSE glyphs

\* The body of the loop over i (arabic.rs:114-163).
joining_state(glyphs, prev, i) ==
    IF should_skip(At(glyphs, i)) THEN glyphs
    ELSE IF JoiningTypeAt(glyphs, prev) \in {"LeftJoining", "DualJoining", "JoinCausing"}
    THEN IF JoiningTypeAt(glyphs, i) \in {"RightJoining", "DualJoining", "JoinCausing"}
         THEN IF FeatureTagAt(glyphs, prev) = "isol"
              THEN SetFeatureTag(SetFeatureTag(glyphs, i, "fina"), prev, "init")
              ELSE IF FeatureTagAt(glyphs, prev) = "fina"
              THEN SetFeatureTag(SetFeatureTag(glyphs, i, "fina"), prev, "medi")
              ELSE SetFeatureTag(glyphs, i, "fina")
         ELSE IF JoiningTypeAt(glyphs, i) \in {"LeftJoining", "NonJoining"}
         THEN IF FeatureTagAt(glyphs, prev) = "medi"
              THEN SetFeatureTag(SetFeatureTag(glyphs, i, "isol"), prev, "fina")
              ELSE IF FeatureTagAt(glyphs, prev) = "init"
              THEN SetFeatureTag(SetFeatureTag(glyphs, i, "isol"), prev, "isol")
              ELSE SetFeatureTag(glyphs, i, "isol")
         ELSE glyphs
    ELSE IF JoiningTypeAt(glyphs, prev) \in {"RightJoining", "NonJoining"}
    THEN IF FeatureTagAt(glyphs, prev) = "medi"
         THEN SetFeatureTag(SetFeatureTag(glyphs, i, "isol"), prev, "fina")
         ELSE IF FeatureTagAt(glyphs, prev) = "init"
         THEN SetFeatureTag(SetFeatureTag(glyphs, i, "isol"), prev, "isol")
         ELSE SetFeatureTag(glyphs, i, "isol")
    ELSE glyphs

\* Glyphs as the ccmp lookups leave them: each with the joining type of its
\* character and the tag ISOL, some of them the later outputs of a multiple
\* substitution.
ArabicGlyphs ==
    { [ArabicGlyph_from(MapGlyph("a"), jt) EXCEPT !.multi_subst_dup = dup] :
        jt \in JoiningTypes, dup \in BOOLEAN }

InitArabic ==
    /\ BuildIdle
    /\ CacheIdle
    /\ ApplyIdle
    /\ IterIdle
    /\ PassIdle
    /\ feature_list = <<>>
    /\ overflow_checks = TRUE
    /\ glyph_vec \in GlyphSeqs(ArabicGlyphs, MaxArabicLen)

otherThanArabic ==
    <<buildvars, cachevars, overflow_checks, lookup_list, lookup_pos, win_start, win_length,
      reason, max_depth, entry_len, entry_length, ideal_length, dist_before, tail, itervars,
      calls, font_glyphs, fracvars>>

\* let mut previous_i = ...; the loop starts at previous_i + 1.
FindPrevious ==
    /\ pc = "idle"
    /\ previous_i' = first_previous_i(glyph_vec)
    /\ cursor' = first_previous_i(glyph_vec) + 1
    /\ pc' = "pass"
    /\ UNCHANGED <<glyph_vec, otherThanArabic>>

\* One iteration of the loop over i.
JoinStep ==
    /\ pc = "pass"
    /\ cursor < Len(glyph_vec)
    /\ glyph_vec' = joining_state(glyph_vec, previous_i, cursor)
    /\ previous_i' = IF should_skip(At(glyph_vec, cursor)) THEN previous_i ELSE cursor
    /\ cursor' = cursor + 1
    /\ UNCHANGED <<pc, otherThanArabic>>

\* The loop is over.
EndPass ==
    /\ pc = "pass"
    /\ cursor >= Len(glyph_vec)
    /\ pc' = "done"
    /\ UNCHANGED <<glyph_vec, previous_i, cursor, otherThanArabic>>

NextArabic == FindPrevious \/ JoinStep \/ EndPass

SpecArabic == InitArabic /\ [][NextArabic]_vars

\* The indices of the glyphs the pass does not skip.
NotSkipped == {k \in 0..(Len(glyph_vec) - 1) : ~should_skip(At(glyph_vec, k))}

\* a joins b
Joins(a, b) ==
    /\ a.extra_data.joining_type \in {"LeftJoining", "DualJoining", "JoinCausing"}
    /\ b.extra_data.joining_type \in {"RightJoining", "DualJoining", "JoinCausing"}

\* The previous non-skipped glyph of g exists and joins g.
JoinedByPrevious(g) ==
    \E q \in NotSkipped :
        /\ q < g
        /\ \A k \in NotSkipped : ~(q < k /\ k < g)
        /\ Joins(At(glyph_vec, q), At(glyph_vec, g))

\* The next non-skipped glyph of g exists and g joins it.
JoinsNext(g) ==
    \E n \in NotSkipped :
        /\ g < n
        /\ \A k \in NotSkipped : ~(g < k /\ k < n)
        /\ Joins(At(glyph_vec, g), At(glyph_vec, n))

ExpectedTag(g) ==
    IF JoinedByPrevious(g) /\ JoinsNext(g) THEN "medi"
    ELSE IF JoinsNext(g) THEN "init"
    ELSE IF JoinedByPrevious(g) THEN "fina"
    ELSE "isol"

\* C20: after the joining-state pass every non-skipped glyph is tagged MEDI
\* if its previous non-skipped glyph joins it and it joins its next one, INIT
\* if only it joins the next, FINA if only the previous joins it, and ISOL
\* otherwise, where a joins b iff a is Left, Dual or JoinCausing and b is
\* Right, Dual or JoinCausing.
C20_JoiningStateTags ==
    pc = "done" => \A g \in NotSkipped : FeatureTagAt(glyph_vec, g) = ExpectedTag(g)

\* A Dual letter between Dual neighbours is MEDI.
C20_Witness ==
    /\ pc = "done"
    /\ Len(glyph_vec) = 3
    /\ \A k \in 0..2 : JoiningTypeAt(glyph_vec, k) = "DualJoining"
    /\ NotSkipped = {0, 1, 2}
    /\ FeatureTagAt(glyph_vec, 0) = "init"
    /\ FeatureTagAt(glyph_vec, 1) = "medi"
    /\ FeatureTagAt(glyph_vec, 2) = "fina"

\* The same letter between NonJoining neighbours is ISOL.
C20_WitnessIsolated ==
    /\ pc = "done"
    /\ Len(glyph_vec) = 3
    /\ NotSkipped = {0, 1, 2}
    /\ JoiningTypeAt(glyph_vec, 0) = "NonJoining"
    /\ JoiningTypeAt(glyph_vec, 1) = "DualJoining"
    /\ JoiningTypeAt(glyph_vec, 2) = "NonJoining"
    /\ FeatureTagAt(glyph_vec, 1) = "isol"

\* Two letters join across a skipped glyph.
C20_WitnessAcrossSkipped ==
    /\ pc = "done"
    /\ Len(glyph_vec) = 3
    /\ NotSkipped = {0, 2}
    /\ FeatureTagAt(glyph_vec, 0) = "init"
    /\ FeatureTagAt(glyph_vec, 2) = "fina"

\* ========================================================================
\* SpecForms: the ISOL/FINA/MEDI/INIT lookups of gsub_apply_arabic
\* (arabic.rs:170-187), one gsub_apply_lookup call per step
\* ========================================================================

MaxFormsLen == 3

\* The joining-state pass as a whole, from loop index i.
RECURSIVE joining_pass_from(_, _, _)
joining_pass_from(glyphs, prev, i) ==
    IF i >= Len(glyphs) THEN glyphs
    ELSE joining_pass_from(joining_state(glyphs, prev, i),
                           IF should_skip(At(glyphs, i)) THEN prev ELSE i, i + 1)

joining_pass(glyphs) ==
    joining_pass_from(glyphs, first_previous_i(glyphs), first_previous_i(glyphs) + 1)

FormTags == {"isol", "fina", "medi", "init"}

\* Glyphs of the letters a, b, c, each with one of three joining types.
FormGlyphs ==
    { ArabicGlyph_from(MapGlyph(c), jt) :
        c \in {"a", "b", "c"}, jt \in {"DualJoining", "RightJoining", "NonJoining"} }

\* What build_lookups(gsub_table, langsys, [ISOL, FINA, MEDI, INIT]) can
\* yield: lookups in index order, each attributed to one of the four tags.
FormLookupLists ==
    { << <<li, tag>> >> : li \in {0, 1, 3, 10, 12}, tag \in FormTags }
        \cup { << <<0, "isol">>, <<3, "init">> >>, << <<1, "fina">>, <<12, "init">> >> }

InitForms ==
    /\ BuildIdle
    /\ CacheIdle
    /\ PassIdle
    /\ feature_list = <<>>
    /\ overflow_checks \in BOOLEAN
    /\ glyph_vec \in {joining_pass(s) : s \in GlyphSeqs(FormGlyphs, MaxFormsLen)}
    /\ lookup_list \in FormLookupLists
    /\ lookup_pos = 1
    /\ pc = "forms"
    /\ win_start = 0
    /\ win_length = 0
    /\ cursor = 0
    /\ reason = ""
    /\ max_depth = 0
    /\ entry_len = 0
    /\ entry_length = 0
    /\ ideal_length = 0
    /\ dist_before = 0
    /\ tail = 0
    /\ alternate_arg = None
    /\ prev_glyphs = <<>>
    /\ prev_cursor = 0
    /\ prev_length = 0

otherThanForms ==
    <<buildvars, cachevars, passvars, overflow_checks, lookup_list, win_start, cursor,
      max_depth, entry_len, entry_length, ideal_length, dist_before, tail, alternate_arg,
      prev_cursor, prev_length>>

\* One round of the loop over the resolved lookups: gsub_apply_lookup over
\* the whole sequence, with pred |g| g.extra_data.feature_tag == feature_tag.
ApplyForm ==
    /\ pc = "forms"
    /\ lookup_pos <= Len(lookup_list)
    /\ \E r \in {gsub_apply_lookup(lookup_list[lookup_pos][1], lookup_list[lookup_pos][2],
                                    None, glyph_vec, 0, Len(glyph_vec),
                                    lookup_list[lookup_pos][2], overflow_checks)} :
          /\ glyph_vec' = r.glyphs
          /\ pc' = IF r.st = "ok" THEN "forms" ELSE IF r.st = "err" THEN "error" ELSE "panic"
          /\ reason' = r.why
          /\ win_length' = Len(glyph_vec)
    /\ prev_glyphs' = glyph_vec
    /\ lookup_pos' = lookup_pos + 1
    /\ UNCHANGED otherThanForms

\* The loop over the resolved lookups is over.
EndForms ==
    /\ pc = "forms"
    /\ lookup_pos > Len(lookup_list)
    /\ pc' = "done"
    /\ UNCHANGED <<glyph_vec, prev_glyphs, lookup_pos, reason, win_length, otherThanForms>>

NextForms == ApplyForm \/ EndForms

SpecForms == InitForms /\ [][NextForms]_vars

\* The tag the last applied lookup is attributed to.
LastFormTag == lookup_list[lookup_pos - 1][2]

\* The glyphs of a sequence that carry another tag than the given one.
OtherTagged(glyphs, feature_tag) ==
    SelectSeq(glyphs, LAMBDA g : g.extra_data.feature_tag # feature_tag)

\* C21: an ISOL/FINA/MEDI/INIT lookup leaves every glyph that carries another
\* tag than the lookup's as it was: not substituted, not merged into a
\* ligature, not removed, also as a ligature component or as the target of a
\* nested substitution.
C21_OnlyGlyphsWithTheLookupsTagChange ==
    (lookup_pos > 1 /\ pc \in {"forms", "done", "error"}) =>
        OtherTagged(glyph_vec, LastFormTag) = OtherTagged(prev_glyphs, LastFormTag)

\* A lookup changes a glyph that carries its tag next to glyphs that carry
\* other tags, and those are left as they were.
C21_TaggedGlyphSubstituted ==
    /\ lookup_pos > 1
    /\ pc = "forms"
    /\ glyph_vec # prev_glyphs
    /\ OtherTagged(prev_glyphs, LastFormTag) # <<>>
    /\ OtherTagged(glyph_vec, LastFormTag) = OtherTagged(prev_glyphs, LastFormTag)

\* ------------------------------------------------------------------------
\* Skipped glyphs in the joining-state pass
\* ------------------------------------------------------------------------

\* Transparent glyphs and the later outputs of a multiple substitution.
Skipped(glyph) == glyph.extra_data.joining_type = "Transparent" \/ glyph.multi_subst_dup

FeatureTags(glyphs) == [n \in 1..Len(glyphs) |-> glyphs[n].extra_data.feature_tag]

\* The sequence as classification left it: every glyph tagged ISOL.
Classified(glyphs) ==
    [n \in 1..Len(glyphs) |-> [glyphs[n] EXCEPT !.extra_data.feature_tag = "isol"]]

\* C34: during the joining-state pass every glyph carries one of the tags
\* ISOL, INIT, MEDI, FINA and a skipped glyph (Transparent, or with
\* multi_subst_dup set) the tag ISOL it was classified with; when the pass is
\* over the tags of the glyphs that are not skipped are those the pass gives
\* to the sequence without the skipped glyphs.
C34_SkippedGlyphsAreAbsent ==
    /\ \A n \in 1..Len(glyph_vec) :
          /\ glyph_vec[n].extra_data.feature_tag \in FormTags
          /\ Skipped(glyph_vec[n]) => glyph_vec[n].extra_data.feature_tag = "isol"
    /\ pc = "done" =>
          FeatureTags(SelectSeq(glyph_vec, LAMBDA g : ~Skipped(g)))
              = FeatureTags(joining_pass(SelectSeq(Classified(glyph_vec),
                                                   LAMBDA g : ~Skipped(g))))

\* A Dual letter, the second output of a multiple substitution (Dual as
\* well) and a Right letter: the letters are INIT and FINA, the glyph between
\* them is ISOL.
C34_JoinedAcrossDuplicate ==
    /\ pc = "done"
    /\ Len(glyph_vec) = 3
    /\ \A k \in 0..1 : JoiningTypeAt(glyph_vec, k) = "DualJoining"
    /\ JoiningTypeAt(glyph_vec, 2) = "RightJoining"
    /\ glyph_vec[2].multi_subst_dup /\ ~glyph_vec[1].multi_subst_dup
        /\ ~glyph_vec[3].multi_subst_dup
    /\ FeatureTags(glyph_vec) = <<"init", "isol", "fina">>

\* ========================================================================
\* SpecStep: the loop of gsub_apply_lookup under a position predicate, on
\* sequences with marks and with glyphs the font has no id for
\* ========================================================================

MaxStepLen == 3

\* The letters a and b and the mark m, a character the font does not map
\* (no glyph id), and an a tagged init.
StepGlyphs ==
    LET isol(c) == ArabicGlyph_from(MapGlyph(c), "DualJoining")
    IN { isol("a"), isol("b"), isol("m"),
         [isol("c") EXCEPT !.glyph_index = None],
         [isol("a") EXCEPT !.extra_data.feature_tag = "init"] }

\* One lookup of every kind, as a form lookup (tag isol, applied under the
\* predicate of its tag) and as a typographic lookup (tag liga, |_| true).
StepLookupLists ==
    { << <<li, tag>> >> : li \in {0, 1, 2, 3, 9, 10, 11, 12}, tag \in {"isol", "liga"} }

\* The predicate gsub_apply_arabic passes along with a lookup of that tag.
StepPred(feature_tag) == IF feature_tag \in FormTags THEN feature_tag ELSE "any"

InitStep ==
    /\ BuildIdle
    /\ CacheIdle
    /\ PassIdle
    /\ feature_list = <<>>
    /\ overflow_checks \in BOOLEAN
    /\ glyph_vec \in GlyphSeqs(StepGlyphs, MaxStepLen)
    /\ lookup_list \in StepLookupLists
    /\ alternate_arg \in {None, Some(1)}
    /\ win_start = 0
    /\ win_length = Len(glyph_vec)
    /\ pc = "enter"
    /\ lookup_pos = 1
    /\ cursor = 0
    /\ reason = ""
    /\ max_depth = 0
    /\ entry_len = Len(glyph_vec)
    /\ entry_length = win_length
    /\ ideal_length = win_length
    /\ dist_before = 0
    /\ tail = 0
    /\ prev_glyphs = <<>>
    /\ prev_cursor = 0
    /\ prev_length = 0

\* One iteration of the loop, with the predicate of the lookup's tag.
IterateForm ==
    /\ pc = "loop"
    /\ LoopCond(CurrentLookup, win_start, win_length, cursor, overflow_checks) = "run"
    /\ \E r \in {LoopIter(CurrentLookup, lookup_list[lookup_pos][2], alternate_arg,
                            StepPred(lookup_list[lookup_pos][2]), glyph_vec, win_start,
                            win_length, cursor, overflow_checks)} :
          /\ glyph_vec' = r.glyphs
          /\ win_length' = r.length
          /\ cursor' = r.i
          /\ max_depth' = MaxOf(max_depth, r.depth)
          /\ ideal_length' = ideal_length + r.delta
          /\ pc' = IF r.st = "ok" THEN "loop" ELSE IF r.st = "err" THEN "error" ELSE "panic"
          /\ reason' = r.why
    /\ dist_before' = UsizeWrap(win_start + win_length) - cursor
    /\ prev_glyphs' = glyph_vec
    /\ prev_cursor' = cursor
    /\ prev_length' = win_length
    /\ UNCHANGED <<buildvars, cachevars, passvars, overflow_checks, alternate_arg, lookup_list,
                   lookup_pos, win_start, entry_len, entry_length, tail>>

NextStep == EnterLookup \/ IterateForm \/ ExitLoop \/ ReturnLength

SpecStep == InitStep /\ [][NextStep]_vars

\* An iteration of the loop has run (the sequence it found was not empty).
Stepped == pc \in {"loop", "panic", "error"} /\ prev_glyphs # <<>>

\* The position the last iteration examined and the glyph there.
StepAt == IF IsReverse(CurrentLookup) THEN prev_cursor - 1 ELSE prev_cursor
StepGlyph == At(prev_glyphs, StepAt)

\* The glyph is invisible under the lookup's flags, has no glyph id, or
\* does not carry the tag the predicate asks for.
Invisible ==
    glyph_class(StepGlyph) \in MatchType_from_lookup_flag(CurrentLookup.lookup_flag)
Untagged ==
    /\ lookup_list[lookup_pos][2] \in FormTags
    /\ StepGlyph.extra_data.feature_tag # lookup_list[lookup_pos][2]
PassedOver == Invisible \/ ~IsSome(StepGlyph.glyph_index) \/ Untagged

\* C31: for every subtable kind an iteration of the loop changes the
\* sequence only if the would_apply query of that kind reports a match at
\* the examined position of the sequence as it was; and when the glyph
\* there is invisible under the lookup's flags, has no glyph id or fails the
\* position predicate, the iteration leaves the whole sequence unchanged
\* and moves the cursor by one.
C31_ChangeOnlyWhereWouldApply ==
    Stepped =>
        /\ glyph_vec # prev_glyphs =>
              gsub_lookup_would_apply(CurrentLookup, prev_glyphs, StepAt)
        /\ PassedOver =>
              /\ pc = "loop"
              /\ glyph_vec = prev_glyphs
              /\ win_length = prev_length
              /\ cursor = IF IsReverse(CurrentLookup) THEN prev_cursor - 1 ELSE prev_cursor + 1

\* A covered glyph that carries another tag than the lookup's was passed
\* over.
C31_UntaggedPassedOver ==
    /\ Stepped
    /\ Untagged
    /\ ~Invisible
    /\ IsSome(StepGlyph.glyph_index)
    /\ gsub_lookup_would_apply(CurrentLookup, prev_glyphs, StepAt)
    /\ glyph_vec = prev_glyphs

\* A glyph without an id, a mark under IGNORE_MARKS, and a substitution.
C31_NoGlyphIdPassedOver ==
    Stepped /\ ~IsSome(StepGlyph.glyph_index) /\ glyph_vec = prev_glyphs
C31_MarkPassedOver ==
    Stepped /\ Invisible /\ glyph_vec = prev_glyphs
C31_Changed ==
    Stepped /\ glyph_vec # prev_glyphs /\ CurrentLookup.kind = "ContextSubst"

\* ========================================================================
\* SpecFrac: gsub_apply_lookups_frac (gsub.rs:1206-1251), one
\* gsub_apply_lookups_impl call per step
\* ========================================================================

MaxFracLen == 4

FracAlphabet == {"a", "1", "2", "/"}

\* (lookups, lookups_frac) as gsub_apply_default resolves them: the lists of
\* the mask without and with FRAC, in lookup index order.
FracLookupPairs ==
    { << << <<0, "liga">> >>, << <<0, "liga">>, <<13, "frac">> >> >>,
      << << <<1, "liga">> >>, << <<1, "liga">>, <<13, "frac">> >> >>,
      << << <<15, "liga">> >>, << <<13, "frac">>, <<15, "liga">> >> >> }

InitFrac ==
    /\ BuildIdle
    /\ CacheIdle
    /\ IterIdle
    /\ feature_list = <<>>
    /\ overflow_checks \in BOOLEAN
    /\ glyph_vec \in {MapGlyphs(t) : t \in Texts(FracAlphabet, MaxFracLen)}
    /\ \E pair \in FracLookupPairs : lookup_list = pair[1] /\ lookups_frac_arg = pair[2]
    /\ windows = <<>>
    /\ pc = "scan"
    /\ cursor = 0
    /\ lookup_pos = 0
    /\ win_start = 0
    /\ win_length = 0
    /\ reason = ""
    /\ max_depth = 0
    /\ entry_len = 0
    /\ entry_length = 0
    /\ ideal_length = 0
    /\ dist_before = 0
    /\ tail = 0
    /\ previous_i = 0
    /\ calls = <<>>
    /\ font_glyphs = 0

otherThanFrac ==
    <<buildvars, cachevars, itervars, overflow_checks, lookup_list, lookups_frac_arg, lookup_pos,
      win_start, max_depth, entry_len, entry_length, ideal_length, dist_before, tail,
      previous_i, calls, font_glyphs>>

\* One gsub_apply_lookups_impl call as the loop made it: which list, the
\* window, the sequence before and after, and the outcome.
Window(frac, start, length, before, r) ==
    [frac |-> frac, start |-> start, length |-> length, before |-> before,
     after |-> r.glyphs, st |-> r.st]

\* find_fraction(&glyphs[i..])
FractionAhead == find_fraction(SubSeq(glyph_vec, cursor + 1, Len(glyph_vec)))

\* `i += gsub_apply_lookups_impl(.., i, length)?` with the given list.
AdvanceOver(frac, lookups, length, next_pc, pending) ==
    \E r \in {gsub_apply_lookups_impl(lookups, glyph_vec, cursor, length, overflow_checks)} :
        \E a \in {Advance(cursor, r, overflow_checks)} :
            /\ glyph_vec' = a.glyphs
            /\ cursor' = IF a.st = "ok" THEN a.val ELSE cursor
            /\ pc' = IF a.st = "ok" THEN next_pc ELSE IF a.st = "err" THEN "error" ELSE "panic"
            /\ reason' = a.why
            /\ win_length' = pending
            /\ windows' = Append(windows, Window(frac, cursor, length, glyph_vec, r))
            /\ UNCHANGED otherThanFrac

\* A fraction lies ahead behind other glyphs: lookups on the glyphs before it.
ApplyBefore ==
    /\ pc = "scan"
    /\ cursor < Len(glyph_vec)
    /\ \E f \in {FractionAhead} :
          /\ IsSome(f)
          /\ Unwrap(f)[1] > 0
          /\ AdvanceOver(FALSE, lookup_list, Unwrap(f)[1], "frac",
                         Unwrap(f)[3] - Unwrap(f)[1] + 1)

\* lookups_frac on end_pos - start_pos + 1 glyphs from i.
ApplyFrac ==
    \/ /\ pc = "frac"
       /\ AdvanceOver(TRUE, lookups_frac_arg, win_length, "scan", 0)
    \/ /\ pc = "scan"
       /\ cursor < Len(glyph_vec)
       /\ \E f \in {FractionAhead} :
             /\ IsSome(f)
             /\ Unwrap(f)[1] = 0
             /\ AdvanceOver(TRUE, lookups_frac_arg, Unwrap(f)[3] + 1, "scan", 0)

\* No fraction ahead: lookups on all that is left, and break.
ApplyRest ==
    /\ pc = "scan"
    /\ cursor < Len(glyph_vec)
    /\ FractionAhead = None
    /\ \E r \in {gsub_apply_lookups_impl(lookup_list, glyph_vec, cursor,
                                          Len(glyph_vec) - cursor, overflow_checks)} :
          /\ glyph_vec' = r.glyphs
          /\ pc' = IF r.st = "ok" THEN "done" ELSE IF r.st = "err" THEN "error" ELSE "panic"
          /\ reason' = r.why
          /\ windows' = Append(windows, Window(FALSE, cursor, Len(glyph_vec) - cursor,
                                                glyph_vec, r))
    /\ UNCHANGED <<cursor, win_length, otherThanFrac>>

\* i has reached glyphs.len().
EndFrac ==
    /\ pc = "scan"
    /\ cursor >= Len(glyph_vec)
    /\ pc' = "done"
    /\ UNCHANGED <<glyph_vec, cursor, reason, win_length, windows, otherThanFrac>>

NextFrac == ApplyBefore \/ ApplyFrac \/ ApplyRest \/ EndFrac

SpecFrac == InitFrac /\ [][NextFrac]_vars

\* The sequence gsub_apply_lookups_frac was called with.
FracInput == IF windows = <<>> THEN glyph_vec ELSE windows[1].before

\* The number of input glyphs the windows before window j stand for.
RECURSIVE WindowOffset(_)
WindowOffset(j) == IF j <= 1 THEN 0 ELSE WindowOffset(j - 1) + windows[j - 1].length

\* The glyphs of the input that window j stands for.
InputChunk(j) ==
    SubSeq(FracInput, WindowOffset(j) + 1, WindowOffset(j) + windows[j].length)

\* The glyphs window j held when its lookups were applied.
WindowGlyphs(j) ==
    SubSeq(windows[j].before, windows[j].start + 1, windows[j].start + windows[j].length)

\* digit-run, '/', digit-run, and nothing else.
IsFraction(glyphs) ==
    /\ IsSome(find_fraction(glyphs))
    /\ Unwrap(find_fraction(glyphs))[1] = 0
    /\ Unwrap(find_fraction(glyphs))[3] = Len(glyphs) - 1

\* C22: the windows cover every glyph of the input exactly once, each
\* holding its glyphs of the input when its lookups are applied; the
\* fraction set is applied to windows that are a digit-run, '/', digit-run
\* span, and the non-fraction set to the others, in which no fraction was
\* detected.
C22_WindowsPartitionTheInput ==
    pc = "done" =>
        /\ WindowOffset(Len(windows) + 1) = Len(FracInput)
        /\ \A j \in 1..Len(windows) :
              /\ windows[j].start + windows[j].length <= Len(windows[j].before)
              /\ WindowGlyphs(j) = InputChunk(j)
              /\ windows[j].frac => IsFraction(InputChunk(j))
              /\ ~windows[j].frac => find_fraction(InputChunk(j)) = None

\* "1/2" behind a letter: the non-fraction set on the letter, the fraction
\* set on exactly the three glyphs.
C22_FractionBehindLetter ==
    /\ pc = "done"
    /\ Len(windows) = 2
    /\ ~windows[1].frac /\ windows[2].frac
    /\ InputChunk(2) = MapGlyphs(<<"1", "/", "2">>)
    /\ WindowGlyphs(2) = InputChunk(2)
    /\ \A j \in 1..2 : windows[j].after # windows[j].before

\* A bare '/': the non-fraction set alone, over the whole sequence.
C22_BareSlash ==
    /\ pc = "done"
    /\ Len(windows) = 1
    /\ ~windows[1].frac
    /\ windows[1].start = 0
    /\ windows[1].length = Len(FracInput)
    /\ \E n \in 1..Len(FracInput) : FracInput[n].glyph_origin = Char("/")

\* The digit-run, '/', digit-run spans of a sequence from index from on,
\* read left to right, as <<first index, last index>>.
RECURSIVE FractionSpans(_, _)
FractionSpans(glyphs, from) ==
    LET slashes == {q \in (from + 1)..(Len(glyphs) - 2) :
                        /\ At(glyphs, q).glyph_origin = Char("/")
                        /\ is_digit(At(glyphs, q - 1).glyph_origin)
                        /\ is_digit(At(glyphs, q + 1).glyph_origin)}
    IN IF slashes = {} THEN {}
       ELSE LET q == CHOOSE x \in slashes : \A y \in slashes : x <= y
                s == CHOOSE x \in from..(q - 1) :
                        /\ \A k \in x..(q - 1) : is_digit(At(glyphs, k).glyph_origin)
                        /\ x > from => ~is_digit(At(glyphs, x - 1).glyph_origin)
                e == find_fraction_end(glyphs, q)
            IN {<<s, e>>} \cup FractionSpans(glyphs, e + 1)

\* C23: every digit-run, '/', digit-run span of the input receives the
\* fraction lookup set, whatever precedes it.
C23_EveryFractionGetsTheFractionSet ==
    pc = "done" =>
        \A span \in FractionSpans(FracInput, 0) :
            \E j \in 1..Len(windows) :
                /\ windows[j].frac
                /\ WindowOffset(j) = span[1]
                /\ windows[j].length = span[2] - span[1] + 1

\* A fraction behind a letter receives the fraction set.
C23_FractionFound ==
    /\ pc = "done"
    /\ FractionSpans(FracInput, 0) = {<<1, 3>>}
    /\ \E j \in 1..Len(windows) : windows[j].frac /\ WindowOffset(j) = 1

\* The glyphs before and behind window j are after the call what they were
\* before it.
OutsideUnchanged(j) ==
    LET w == windows[j]
        behind == Len(w.before) - (w.start + w.length)
    IN /\ behind >= 0
       /\ Len(w.after) >= w.start + behind
       /\ SubSeq(w.after, 1, w.start) = SubSeq(w.before, 1, w.start)
       /\ SubSeq(w.after, Len(w.after) - behind + 1, Len(w.after))
             = SubSeq(w.before, w.start + w.length + 1, Len(w.before))

\* C24: the fraction set applied to a span changes no glyph outside the
\* span, and the non-fraction set applied to the glyphs before a span
\* changes no glyph of the span.
C24_LookupsStayInsideTheirWindow ==
    \A j \in 1..Len(windows) : OutsideUnchanged(j)

\* ========================================================================
\* SpecCache: shaping calls against one font's layout cache
\* ========================================================================

\* Features 0..2 of the font: liga (ligatures), frac (fraction forms) and a
\* second liga (decomposition, then a single substitution that covers the
\* glyphs of the joiners).
CacheFeatureList ==
    << [feature_tag |-> "liga", lookup_indices |-> <<3>>],
       [feature_tag |-> "frac", lookup_indices |-> <<13>>],
       [feature_tag |-> "liga", lookup_indices |-> <<1, 14>>] >>

Script(script_tag, default_langsys, langsys_records) ==
    [script_tag |-> script_tag, default_langsys |-> default_langsys,
     langsys_records |-> langsys_records]

\* "latn" has a default LangSys and a LangSys "BAD " naming a feature index
\* the feature list does not have.
CacheScriptsNoDefault ==
    << Script("latn", Some(<<0, 1>>), << <<"BAD ", <<0, 7>> >> >>) >>

\* The same with a "DFLT" script, which has a LangSys "ENG " and no default
\* LangSys, for the scripts the table does not list.
CacheScriptsWithDefault ==
    CacheScriptsNoDefault \o << Script("DFLT", None, << <<"ENG ", <<2>> >> >>) >>

CacheScriptTags == {"latn", "cyrl"}
CacheLangTags == {"ENG ", "BAD "}
CacheMasks == { {"LIGA", "CALT"}, {"LIGA", "FRAC"} }
CacheTexts == { <<"a", "b", "ZWJ", "1", "/", "2">>, <<"a", "b", "c">> }
CacheNumGlyphs == {16}

\* A cache without the list at index 0.
new_layout_cache_no_lists == LayoutCache({}, {}, <<>>)

\* The cache as new_layout_cache makes it: nothing memoized, and the empty
\* lookup list at index 0 of cached_lookups, the index recorded for keys
\* without script or LangSys.
new_layout_cache == LayoutCache({}, {}, << <<>> >>)

InitCache ==
    /\ BuildIdle
    /\ ApplyIdle
    /\ IterIdle
    /\ PassIdle
    /\ feature_list = CacheFeatureList
    /\ script_list \in {CacheScriptsNoDefault, CacheScriptsWithDefault}
    /\ glyph_vec = <<>>
    /\ overflow_checks \in BOOLEAN
    /\ gsub_cache = new_layout_cache
    /\ cache_before = new_layout_cache
    /\ last_call = [fn |-> "none"]
    /\ fresh = [st |-> "none"]

Status(st) == IF st = "ok" THEN "done" ELSE IF st = "err" THEN "error" ELSE "panic"

otherThanCache ==
    <<feature_list, script_list, langsys, bl_call, bl_result, overflow_checks, lookup_list,
      lookup_pos, win_start, win_length, cursor, max_depth, entry_len, entry_length,
      ideal_length, dist_before, tail, itervars, passvars>>

\* One call of gsub_apply_default on a newly mapped text.
ShapeDefault ==
    /\ pc # "panic"
    /\ \E script_tag \in CacheScriptTags, lang_tag \in CacheLangTags,
          feature_mask \in CacheMasks, text \in CacheTexts, num_glyphs \in CacheNumGlyphs :
          /\ get_script_type(script_tag) = "Default"
          /\ \E r \in {gsub_apply_default(gsub_cache, feature_list, script_list, script_tag,
                                          lang_tag, feature_mask, num_glyphs, MapGlyphs(text),
                                          overflow_checks)},
                f \in {gsub_apply_default(new_layout_cache, feature_list, script_list,
                                          script_tag, lang_tag, feature_mask, num_glyphs,
                                          MapGlyphs(text), overflow_checks)} :
                /\ gsub_cache' = r.cache
                /\ glyph_vec' = r.glyphs
                /\ pc' = Status(r.st)
                /\ reason' = r.why
                /\ fresh' = [st |-> Status(f.st), why |-> f.why, glyphs |-> f.glyphs]
                /\ last_call' = [fn |-> "gsub_apply_default", script_tag |-> script_tag,
                                 lang_tag |-> lang_tag, feature_mask |-> feature_mask,
                                 text |-> text, computed |-> r.computed, built |-> r.built,
                                 val |-> 0]
    /\ cache_before' = gsub_cache
    /\ UNCHANGED otherThanCache

\* One call of the public get_lookups_cache_index by a caller of its own.
GetLookupsCacheIndex ==
    /\ pc # "panic"
    /\ \E lang_tag \in CacheLangTags, feature_mask \in CacheMasks :
          \E r \in {get_lookups_cache_index(gsub_cache.lookups_index,
                                             gsub_cache.cached_lookups, feature_list,
                                             script_list, "latn", lang_tag, feature_mask)} :
             /\ gsub_cache' = LayoutCache(gsub_cache.supported_features, r.index, r.cached)
             /\ pc' = IF r.ok THEN "done" ELSE "error"
             /\ reason' = IF r.ok THEN "" ELSE r.err
             /\ last_call' = [fn |-> "get_lookups_cache_index", script_tag |-> "latn",
                              lang_tag |-> lang_tag, feature_mask |-> feature_mask,
                              text |-> <<>>, computed |-> <<>>, built |-> r.built,
                              val |-> IF r.ok THEN r.val ELSE 0]
    /\ glyph_vec' = <<>>
    /\ fresh' = [st |-> "none"]
    /\ cache_before' = gsub_cache
    /\ UNCHANGED otherThanCache

NextCache == ShapeDefault \/ GetLookupsCacheIndex

SpecCache == InitCache /\ [][NextCache]_vars

\* The lookups_index key the last get_lookups_cache_index call was made for.
LastKey == CacheKey(last_call.script_tag, last_call.lang_tag, last_call.feature_mask)

IsPrefix(s, t) == Len(s) <= Len(t) /\ SubSeq(t, 1, Len(s)) = s

\* C8: a call never runs build_lookups_default for a key that lookups_index
\* already held, nor computes the supported mask of a (script, lang) pair
\* that supported_features already held; and get_lookups_cache_index called
\* for a key already held returns the index recorded for it, at which the
\* same list is stored.
C8_NoRecomputationAfterSuccess ==
    last_call.fn # "none" =>
        /\ \A n \in 1..Len(last_call.built) :
              ~MapHas(cache_before.lookups_index, last_call.built[n])
        /\ \A n \in 1..Len(last_call.computed) :
              ~MapHas(cache_before.supported_features, last_call.computed[n])
        /\ (last_call.fn = "get_lookups_cache_index"
                /\ MapHas(cache_before.lookups_index, LastKey)) =>
              /\ pc = "done"
              /\ last_call.val = MapGet(cache_before.lookups_index, LastKey)
              /\ At(gsub_cache.cached_lookups, last_call.val)
                    = At(cache_before.cached_lookups, last_call.val)

\* get_lookups_cache_index is called again for a key with a built list.
C8_Witness ==
    /\ last_call.fn = "get_lookups_cache_index"
    /\ MapHas(cache_before.lookups_index, LastKey)
    /\ last_call.val >= 1
    /\ last_call.built = <<>>
    /\ At(gsub_cache.cached_lookups, last_call.val) # <<>>

\* C9: a call leaves every list of cached_lookups and every entry of
\* lookups_index as it found it, adding at most new ones at the end and for
\* new keys; and every key whose script and LangSys exist is recorded with
\* the index of the list build_lookups_default yields for it.
C9_CacheNeverInvalidated ==
    /\ IsPrefix(cache_before.cached_lookups, gsub_cache.cached_lookups)
    /\ cache_before.lookups_index \subseteq gsub_cache.lookups_index
    /\ \A e, f \in gsub_cache.lookups_index : e[1] = f[1] => e = f
    /\ \A e \in gsub_cache.lookups_index :
          LET ls == resolve_langsys(script_list, e[1][1], e[1][2])
          IN IsSome(ls) =>
                /\ e[2] < Len(gsub_cache.cached_lookups)
                /\ build_lookups_default(feature_list, Unwrap(ls), e[1][3])
                      = Ok(At(gsub_cache.cached_lookups, e[2]))

\* A list is pushed behind two lists that differ from it and from each other.
C9_Witness ==
    /\ Len(cache_before.cached_lookups) = 3
    /\ Len(gsub_cache.cached_lookups) = 4
    /\ \A m, n \in 1..4 : m # n => gsub_cache.cached_lookups[m] # gsub_cache.cached_lookups[n]

\* C10: gsub_apply_default ends with the outcome and the sequence it ends
\* with against a newly made cache, whatever the cache holds.
C10_ShapingIndependentOfCache ==
    last_call.fn = "gsub_apply_default" =>
        fresh = [st |-> pc, why |-> reason, glyphs |-> glyph_vec]

\* A call that substitutes with lists the cache held already, among others.
C10_Witness ==
    /\ last_call.fn = "gsub_apply_default"
    /\ pc = "done"
    /\ last_call.built = <<>>
    /\ "FRAC" \in last_call.feature_mask
    /\ Len(cache_before.cached_lookups) = 4
    /\ glyph_vec # MapGlyphs(last_call.text)
    /\ fresh.glyphs = glyph_vec

\* The same for a call that ends in an error.
C10_WitnessError ==
    /\ last_call.fn = "gsub_apply_default"
    /\ pc = "error"
    /\ Len(cache_before.cached_lookups) >= 2
    /\ fresh.st = "error"

StandsForJoiner(g) ==
    \/ g.glyph_origin \in {Char("ZWNJ"), Char("ZWJ")}
    \/ \E n \in 1..Len(g.unicodes) : g.unicodes[n] \in {"ZWNJ", "ZWJ"}

\* C13: after a successful gsub_apply_default the sequence holds no glyph
\* that stands for U+200C or U+200D, also when a lookup substituted the
\* joiner's glyph during shaping.
C13_NoJoinerAfterShaping ==
    (last_call.fn = "gsub_apply_default" /\ pc = "done") =>
        \A n \in 1..Len(glyph_vec) : ~StandsForJoiner(glyph_vec[n])

\* The joiner of a text is removed when no lookup touched its glyph.
C13_JoinerStrippedWhenUntouched ==
    /\ last_call.fn = "gsub_apply_default"
    /\ pc = "done"
    /\ \E n \in 1..Len(last_call.text) : last_call.text[n] = "ZWJ"
    /\ glyph_vec # <<>>
    /\ \A n \in 1..Len(glyph_vec) : ~StandsForJoiner(glyph_vec[n])

\* ========================================================================
\* SpecRace: get_lookups_cache_index calls in progress on one cache at the
\* same time, one statement of gsub.rs:1067-1086 per step
\* ========================================================================

MaxCalls == 2

RaceKeys ==
    { CacheKey("latn", "ENG ", {"LIGA", "CALT"}), CacheKey("latn", "ENG ", {"LIGA", "FRAC"}),
      CacheKey("latn", "BAD ", {"LIGA", "CALT"}), CacheKey("cyrl", "ENG ", {"LIGA", "CALT"}) }

\* A call: its key, where it stands, and its locals lookups and index.
Call(key, at, lookups, index) == [key |-> key, at |-> at, lookups |-> lookups, index |-> index]

InitRace ==
    /\ BuildIdle
    /\ ApplyIdle
    /\ IterIdle
    /\ feature_list = CacheFeatureList
    /\ script_list \in {CacheScriptsNoDefault, CacheScriptsWithDefault}
    /\ glyph_vec = <<>>
    /\ overflow_checks = TRUE
    /\ gsub_cache = new_layout_cache
    /\ cache_before = new_layout_cache
    /\ last_call = [fn |-> "none"]
    /\ fresh = [st |-> "none"]
    /\ previous_i = 0
    /\ font_glyphs = 0
    /\ FracIdle
    /\ calls \in [1..MaxCalls -> {Call(key, "start", <<>>, 0) : key \in RaceKeys}]

otherThanRace ==
    <<buildvars, sharedvars, applyvars, feature_list, script_list, cache_before, last_call,
      fresh, itervars, previous_i, font_glyphs, fracvars>>

\* The call holds the RefMut of lookups_index: the temporary of the match
\* scrutinee lives until the match ends.
HoldsIndex(c) == calls[c].at \in {"vacant", "built", "read", "pushed"}

\* lookups_index.borrow_mut().entry(key). While another call holds the
\* RefMut, the unsynchronised borrow flag is either seen set, and borrow_mut
\* panics, or missed, and the call goes on.
KeyLookup(c) ==
    /\ calls[c].at = "start"
    /\ \/ /\ \E d \in 1..MaxCalls : d # c /\ HoldsIndex(d)
          /\ calls' = [calls EXCEPT ![c].at = "panic"]
       \/ /\ EntryOccupied(gsub_cache.lookups_index, calls[c].key)
          /\ calls' = [calls EXCEPT ![c].at = "done",
                                     ![c].index = MapGet(gsub_cache.lookups_index, calls[c].key)]
       \/ /\ ~EntryOccupied(gsub_cache.lookups_index, calls[c].key)
          /\ calls' = [calls EXCEPT ![c].at = "vacant"]
    /\ UNCHANGED <<gsub_cache, otherThanRace>>

\* find_script_or_default, find_langsys_or_default, build_lookups_default;
\* without script or LangSys, entry.insert(0).
BuildList(c) ==
    /\ calls[c].at = "vacant"
    /\ \E ls \in {resolve_langsys(script_list, calls[c].key[1], calls[c].key[2])} :
          IF ~IsSome(ls)
          THEN /\ calls' = [calls EXCEPT ![c].at = "done", ![c].index = 0]
               /\ gsub_cache' = [gsub_cache EXCEPT !.lookups_index = MapInsert(@, calls[c].key, 0)]
          ELSE \E r \in {build_lookups_default(feature_list, Unwrap(ls), calls[c].key[3])} :
                  /\ calls' = IF r.ok THEN [calls EXCEPT ![c].at = "built", ![c].lookups = r.val]
                                      ELSE [calls EXCEPT ![c].at = "error"]
                  /\ UNCHANGED gsub_cache
    /\ UNCHANGED otherThanRace

\* let index = gsub_cache.cached_lookups.borrow().len();
ReadLen(c) ==
    /\ calls[c].at = "built"
    /\ calls' = [calls EXCEPT ![c].at = "read", ![c].index = Len(gsub_cache.cached_lookups)]
    /\ UNCHANGED <<gsub_cache, otherThanRace>>

\* gsub_cache.cached_lookups.borrow_mut().push(lookups);
PushList(c) ==
    /\ calls[c].at = "read"
    /\ calls' = [calls EXCEPT ![c].at = "pushed"]
    /\ gsub_cache' = [gsub_cache EXCEPT
                         !.cached_lookups = cached_lookups_push(@, calls[c].lookups)]
    /\ UNCHANGED otherThanRace

\* *entry.insert(index)
InsertIndex(c) ==
    /\ calls[c].at = "pushed"
    /\ calls' = [calls EXCEPT ![c].at = "done"]
    /\ gsub_cache' = [gsub_cache EXCEPT
                         !.lookups_index = MapInsert(@, calls[c].key, calls[c].index)]
    /\ UNCHANGED otherThanRace

NextRace ==
    \E c \in 1..MaxCalls :
        KeyLookup(c) \/ BuildList(c) \/ ReadLen(c) \/ PushList(c) \/ InsertIndex(c)

SpecRace == InitRace /\ [][NextRace]_vars

\* The key is recorded with the index of the list build_lookups_default
\* yields for it, or with 0 when it has no script or LangSys.
MappedToOwnList(key) ==
    /\ MapHas(gsub_cache.lookups_index, key)
    /\ \A e \in gsub_cache.lookups_index :
          e[1] = key =>
              /\ e[2] < Len(gsub_cache.cached_lookups)
              /\ IF IsSome(resolve_langsys(script_list, key[1], key[2]))
                 THEN build_lookups_default(feature_list,
                                            Unwrap(resolve_langsys(script_list, key[1], key[2])),
                                            key[3])
                         = Ok(At(gsub_cache.cached_lookups, e[2]))
                 ELSE e[2] = 0

C11_ListComputedTwice ==
    /\ \A c \in 1..MaxCalls : calls[c].at = "done"
    /\ calls[1].key = calls[2].key
    /\ Len(gsub_cache.cached_lookups) = 3
    /\ gsub_cache.cached_lookups[2] = gsub_cache.cached_lookups[3]
    /\ MappedToOwnList(calls[1].key)

\* A call finds the RefMut of lookups_index held by the other and panics.
C11_SecondBorrowPanics ==
    \E c \in 1..MaxCalls : calls[c].at = "panic"

\* ------------------------------------------------------------------------
\* The effective feature mask of the default pipeline
\* ------------------------------------------------------------------------

\* The feature records a LangSys declares.
DeclaredFeatures(ls) ==
    {feature_list[ls[n] + 1] : n \in {q \in 1..Len(ls) : ls[q] < Len(feature_list)}}

\* The mask bits of the feature tags the LangSys of (script, lang) declares.
DeclaredMask(script_tag, lang_tag) ==
    LET ls == resolve_langsys(script_list, script_tag, lang_tag)
    IN IF IsSome(ls)
       THEN UNION {from_tag(f.feature_tag) : f \in DeclaredFeatures(Unwrap(ls))}
       ELSE {}

\* The lookups of the features of (script, lang) with a bit in the mask.
ContributedLookups(script_tag, lang_tag, mask) ==
    LET ls == resolve_langsys(script_list, script_tag, lang_tag)
    IN IF IsSome(ls)
       THEN UNION { {f.lookup_indices[j] : j \in 1..Len(f.lookup_indices)} :
                        f \in {g \in DeclaredFeatures(Unwrap(ls)) :
                                    from_tag(g.feature_tag) \cap mask # {}} }
       ELSE {}

\* The lookup list the cache holds for a key of lookups_index.
CachedList(key) == At(gsub_cache.cached_lookups, MapGet(gsub_cache.lookups_index, key))
IndicesOf(lookups) == {lookups[p][1] : p \in 1..Len(lookups)}

\* The last call was gsub_apply_default and got past feature resolution.
FeaturesResolved ==
    /\ last_call.fn = "gsub_apply_default"
    /\ MapHas(gsub_cache.supported_features, <<last_call.script_tag, last_call.lang_tag>>)
    /\ pc \in {"done", "panic"} \/ reason \in {"LimitExceeded"}

EffectiveMask ==
    last_call.feature_mask \cap DeclaredMask(last_call.script_tag, last_call.lang_tag)

\* C26: the supported mask recorded for a (script, lang) pair is the union
\* of the mask bits of the feature tags its LangSys declares, empty without
\* script or LangSys; gsub_apply_default resolves its lookups under the
\* caller's mask intersected with it, so the lookups applied are exactly
\* those of the features both enabled by the caller and declared.
C26_EffectiveMaskIsCallerAndSupported ==
    /\ \A e \in gsub_cache.supported_features : e[2] = DeclaredMask(e[1][1], e[1][2])
    /\ FeaturesResolved =>
          LET key == CacheKey(last_call.script_tag, last_call.lang_tag, EffectiveMask)
              plain == CacheKey(last_call.script_tag, last_call.lang_tag,
                                EffectiveMask \ {"FRAC"})
          IN /\ MapHas(gsub_cache.lookups_index, key)
             /\ IndicesOf(CachedList(key))
                   = ContributedLookups(last_call.script_tag, last_call.lang_tag,
                                        EffectiveMask)
             /\ \A n \in 1..Len(last_call.built) : last_call.built[n] \in {key, plain}
             /\ "FRAC" \in EffectiveMask =>
                   /\ MapHas(gsub_cache.lookups_index, plain)
                   /\ IndicesOf(CachedList(plain))
                         = ContributedLookups(last_call.script_tag, last_call.lang_tag,
                                              EffectiveMask \ {"FRAC"})

\* The caller enables LIGA and CALT, the LangSys declares liga and frac:
\* the list holds the lookup of liga alone.
C26_OnlyLigaContributes ==
    /\ FeaturesResolved
    /\ pc = "done"
    /\ last_call.feature_mask = {"LIGA", "CALT"}
    /\ DeclaredMask(last_call.script_tag, last_call.lang_tag) = {"LIGA", "FRAC"}
    /\ last_call.built = << CacheKey(last_call.script_tag, last_call.lang_tag, {"LIGA"}) >>
    /\ CachedList(CacheKey(last_call.script_tag, last_call.lang_tag, {"LIGA"}))
          = << <<3, "liga">> >>

\* ------------------------------------------------------------------------
\* Keys without script or LangSys, and computations that fail
\* ------------------------------------------------------------------------

\* The table has neither the script nor "DFLT", or the script found has
\* neither the LangSys nor a default one.
NotFound(script_tag, lang_tag) ==
    \/ \A n \in 1..Len(script_list) : script_list[n].script_tag \notin {script_tag, "DFLT"}
    \/ \E n \in 1..Len(script_list) :
          /\ script_list[n].script_tag
                = (IF \E k \in 1..Len(script_list) : script_list[k].script_tag = script_tag
                   THEN script_tag ELSE "DFLT")
          /\ script_list[n].default_langsys = None
          /\ \A k \in 1..Len(script_list[n].langsys_records) :
                script_list[n].langsys_records[k][1] # lang_tag

LastNotFound ==
    /\ last_call.fn = "gsub_apply_default"
    /\ NotFound(last_call.script_tag, last_call.lang_tag)

\* C37: when the script (after the fallback to "DFLT") or its LangSys is not
\* found, index 0 is recorded for the key and gsub_apply_default applies no
\* lookup: the sequence is changed by strip_joiners and replace_missing_glyphs
\* only, whatever was cached before and also on a newly made cache.
C37_NoLookupWithoutScriptOrLangSys ==
    LastNotFound =>
        /\ pc = "done"
        /\ last_call.built = <<>>
        /\ MapHas(gsub_cache.lookups_index,
                  CacheKey(last_call.script_tag, last_call.lang_tag, {}))
        /\ MapGet(gsub_cache.lookups_index,
                  CacheKey(last_call.script_tag, last_call.lang_tag, {})) = 0
        /\ gsub_cache.cached_lookups = cache_before.cached_lookups
        /\ glyph_vec = replace_missing_glyphs(strip_joiners(MapGlyphs(last_call.text)), 16)

\* Such a call after lookup lists of other keys were cached: the joiner is
\* stripped and no ligature is formed.
C37_NotFoundAfterOthersCached ==
    /\ LastNotFound
    /\ Len(cache_before.cached_lookups) > 1
    /\ "FRAC" \in last_call.feature_mask
    /\ Len(glyph_vec) = Len(last_call.text) - 1
    /\ \A n \in 1..Len(glyph_vec) : glyph_vec[n].glyph_index \notin {Some(8), Some(9)}

\* Such a call as the first one on the cache.
C37_NotFoundOnNewCache ==
    /\ LastNotFound
    /\ cache_before = new_layout_cache
    /\ glyph_vec = MapGlyphs(<<"a", "b", "c">>)

\* The last call returned the error of a cache computation.
ComputationFailed == last_call.fn # "none" /\ pc = "error"

\* C39: when the computation of a vacant cache entry returns an error,
\* nothing is recorded for the key, and supported_features, lookups_index
\* and cached_lookups are as before; the key stays vacant, so that a later
\* call computes again.
C39_FailedComputationRecordsNothing ==
    ComputationFailed =>
        /\ gsub_cache = cache_before
        /\ last_call.fn = "get_lookups_cache_index" =>
              /\ last_call.built = <<LastKey>>
              /\ ~MapHas(gsub_cache.lookups_index, LastKey)
        /\ last_call.fn = "gsub_apply_default" =>
              /\ last_call.computed = << <<last_call.script_tag, last_call.lang_tag>> >>
              /\ ~MapHas(gsub_cache.supported_features,
                         <<last_call.script_tag, last_call.lang_tag>>)

\* build_lookups_default failed for a vacant key of a cache that holds
\* entries of other keys.
C39_FailedWithOthersCached ==
    /\ ComputationFailed
    /\ last_call.fn = "get_lookups_cache_index"
    /\ last_call.built = <<LastKey>>
    /\ Len(gsub_cache.cached_lookups) > 2
    /\ gsub_cache.supported_features # {}

\* make_supported_features_mask failed for a vacant pair of such a cache.
C39_FailedSupportedFeatures ==
    /\ ComputationFailed
    /\ last_call.fn = "gsub_apply_default"
    /\ Len(gsub_cache.cached_lookups) > 2

\* ========================================================================
\* SpecAbort: shaping calls against a font with a lookup that fails
\* ========================================================================

\* Feature 0 is liga with a -> 5 (lookup 0), the chaining context on 'b'
\* that references itself (lookup 8) and 5 -> 6, joiners -> 7 (lookup 14);
\* features 1 and 2 are those of CacheFeatureList.
AbortFeatureList ==
    << [feature_tag |-> "liga", lookup_indices |-> <<0, 8, 14>>],
       [feature_tag |-> "frac", lookup_indices |-> <<13>>],
       [feature_tag |-> "liga", lookup_indices |-> <<1, 14>>] >>

InitAbort ==
    /\ BuildIdle
    /\ ApplyIdle
    /\ IterIdle
    /\ PassIdle
    /\ feature_list = AbortFeatureList
    /\ script_list \in {CacheScriptsNoDefault, CacheScriptsWithDefault}
    /\ glyph_vec = <<>>
    /\ overflow_checks \in BOOLEAN
    /\ gsub_cache = new_layout_cache
    /\ cache_before = new_layout_cache
    /\ last_call = [fn |-> "none"]
    /\ fresh = [st |-> "none"]

SpecAbort == InitAbort /\ [][NextCache]_vars

\* The lookups of a list applied one after the other to the window
\* [start, start + length) until one of them does not return Ok: the
\* position of that lookup and the sequence as it left it.
RECURSIVE FirstFailure(_, _, _, _, _)
FirstFailure(lookups, n, glyphs, start, length) ==
    IF n > Len(lookups) THEN [failed |-> FALSE, at |-> n, glyphs |-> glyphs, why |-> ""]
    ELSE Let(gsub_apply_lookup(lookups[n][1], lookups[n][2], None, glyphs, start, length,
                               "any", overflow_checks),
             LAMBDA r :
                 IF r.st = "ok" THEN FirstFailure(lookups, n + 1, r.glyphs, start, r.val)
                 ELSE [failed |-> TRUE, at |-> n, glyphs |-> r.glyphs, why |-> r.why])

\* The first window of the call: everything, or with FRAC in the effective
\* mask the glyphs before the first fraction.
FirstWindowLength ==
    LET fraction == find_fraction(MapGlyphs(last_call.text))
    IN IF "FRAC" \in EffectiveMask /\ IsSome(fraction)
       THEN Unwrap(fraction)[1]
       ELSE Len(last_call.text)

\* The last gsub_apply_default call returned the error of a lookup.
LookupFailed ==
    /\ last_call.fn = "gsub_apply_default"
    /\ pc = "error"
    /\ reason = "LimitExceeded"

AbortedRun ==
    FirstFailure(CachedList(CacheKey(last_call.script_tag, last_call.lang_tag,
                                     EffectiveMask \ {"FRAC"})),
                 1, MapGlyphs(last_call.text), 0, FirstWindowLength)

\* C27: when a lookup application returns an error, gsub_apply_default
\* returns that error with the sequence exactly as the failing lookup left
\* it: the changes of the earlier lookups are kept, no later lookup of the
\* list is applied, and strip_joiners and replace_missing_glyphs do not run.
C27_ErrorAbortsWithoutRollback ==
    LookupFailed =>
        /\ FirstWindowLength > 0
        /\ AbortedRun.failed
        /\ AbortedRun.why = reason
        /\ glyph_vec = AbortedRun.glyphs

\* Lookup 0 turned a into 5, lookup 8 failed on b; the 5 is kept, lookup 14
\* did not turn it into 6, and the joiner is still in the sequence.
C27_FailedAfterFirstLookup ==
    /\ LookupFailed
    /\ AbortedRun.at = 2
    /\ Len(glyph_vec) = Len(last_call.text)
    /\ glyph_vec[1].glyph_index = Some(5)
    /\ glyph_vec # MapGlyphs(last_call.text)
    /\ \E p \in 1..Len(glyph_vec) : glyph_vec[p].glyph_origin = Char("ZWJ")

\* ========================================================================
\* SpecBuild: feature resolution over bounded LangSys declarations
\* ========================================================================

MaxFeatures == 2

BuildTags == {"calt", "liga", "vert", "vrt2"}
BuildLookupIndices == { <<5>>, <<7>>, <<7, 5>> }
BuildFeatureRecords ==
    [feature_tag : BuildTags, lookup_indices : BuildLookupIndices]

BuildFeatureLists ==
    UNION { [1..n -> BuildFeatureRecords] : n \in 0..MaxFeatures }

\* Declaration orders of a LangSys over a feature list of n records: every
\* order of the n feature indices, and one LangSys holding an index past the
\* end of the feature list.
BuildLangSys(n) ==
    { ls \in [1..n -> 0..(n - 1)] : \A a, b \in 1..n : a # b => ls[a] # ls[b] }
        \cup { <<n>> }

BuildMasks == SUBSET {"CALT", "LIGA", "VRT2_OR_VERT"}
BuildTagLists ==
    { <<"calt", "liga">>, <<"liga", "calt">>, <<"vrt2", "vert", "liga">> }
BuildFeatureInfos ==
    { [n \in 1..Len(t) |-> [feature_tag |-> t[n], alternate |-> None]] : t \in BuildTagLists }

NoCall == [fn |-> "none", feature_masks |-> {}, feature_tags |-> <<>>]

InitBuild ==
    /\ ApplyIdle
    /\ CacheIdle
    /\ IterIdle
    /\ PassIdle
    /\ glyph_vec = <<>>
    /\ overflow_checks = TRUE
    /\ feature_list \in BuildFeatureLists
    /\ langsys \in BuildLangSys(Len(feature_list))
    /\ bl_call = NoCall
    /\ bl_result = Ok(<<>>)

otherThanBuild == <<sharedvars, applyvars, cachevars, itervars, passvars>>

BuildDefault(feature_masks) ==
    /\ bl_call' = [fn |-> "build_lookups_default", feature_masks |-> feature_masks,
                   feature_tags |-> <<>>]
    /\ bl_result' = build_lookups_default(feature_list, langsys, feature_masks)
    /\ UNCHANGED <<feature_list, langsys, otherThanBuild>>

BuildLookups(feature_tags) ==
    /\ bl_call' = [fn |-> "build_lookups", feature_masks |-> {}, feature_tags |-> feature_tags]
    /\ bl_result' = build_lookups(feature_list, langsys, feature_tags)
    /\ UNCHANGED <<feature_list, langsys, otherThanBuild>>

BuildCustom(features_list) ==
    /\ bl_call' = [fn |-> "build_lookups_custom", feature_masks |-> {},
                   feature_tags |-> feature_tags_of(features_list)]
    /\ bl_result' = build_lookups_custom(feature_list, langsys, features_list)
    /\ UNCHANGED <<feature_list, langsys, otherThanBuild>>

NextBuild ==
    \/ \E feature_masks \in BuildMasks : BuildDefault(feature_masks)
    \/ \E feature_tags \in BuildTagLists : BuildLookups(feature_tags)
    \/ \E features_list \in BuildFeatureInfos : BuildCustom(features_list)

SpecBuild == InitBuild /\ [][NextBuild]_vars

\* ------------------------------------------------------------------------
\* Claims about feature resolution
\* ------------------------------------------------------------------------

Resolved == bl_call.fn # "none" /\ bl_result.ok

\* The features of the LangSys that the last call enumerated, in enumeration
\* order, each as <<tag the lookups are entered under, lookup indices>>.
\* The call returned Ok, so every find_langsys_feature below did.
EnumeratedTags ==
    IF bl_call.fn = "build_lookups_default"
    THEN [n \in 1..Len(FEATURE_MASKS) |->
            IF FEATURE_MASKS[n][1] \notin bl_call.feature_masks THEN "-"
            ELSE IF IsSome(find_langsys_feature(feature_list, langsys, FEATURE_MASKS[n][2]).val)
            THEN FEATURE_MASKS[n][2]
            ELSE IF FEATURE_MASKS[n][2] = "vrt2" THEN "vert" ELSE "-"]
    ELSE bl_call.feature_tags

Contribution(n) ==
    LET t == EnumeratedTags[n]
        r == IF t = "-" THEN Ok(None) ELSE find_langsys_feature(feature_list, langsys, t)
    IN IF r.ok /\ IsSome(r.val)
       THEN {Unwrap(r.val).lookup_indices[j] : j \in 1..Len(Unwrap(r.val).lookup_indices)}
       ELSE {}

Contributors(k) == {n \in 1..Len(EnumeratedTags) : k \in Contribution(n)}

Min(S) == CHOOSE x \in S : \A y \in S : x <= y
Max(S) == CHOOSE x \in S : \A y \in S : x >= y

\* C1: the list resolved by build_lookups_default / build_lookups is in
\* strictly ascending lookup-index order, whatever the declaration order of
\* the features in the LangSys and the order in which they are enumerated.
C1_AscendingLookupOrder ==
    (Resolved /\ bl_call.fn \in {"build_lookups_default", "build_lookups"}) =>
        \A p \in 1..(Len(bl_result.val) - 1) : bl_result.val[p][1] < bl_result.val[p + 1][1]

\* Feature A = calt (lookup 7) is declared after feature B = liga (lookup 5)
\* and enumerated before it; lookup 5 comes first in the resolved list.
C1_Witness ==
    /\ bl_call.fn = "build_lookups_default"
    /\ {"CALT", "LIGA"} \subseteq bl_call.feature_masks
    /\ feature_list = << [feature_tag |-> "liga", lookup_indices |-> <<5>>],
                         [feature_tag |-> "calt", lookup_indices |-> <<7>>] >>
    /\ langsys = <<0, 1>>
    /\ bl_result = Ok(<< <<5, "liga">>, <<7, "calt">> >>)

\* C2 as stated: a lookup referenced by several enumerated features carries
\* the tag of the first of them in enumeration order.
C2_FirstInserterAttributed ==
    Resolved =>
        \A p \in 1..Len(bl_result.val) :
            Contributors(bl_result.val[p][1]) # {} =>
                bl_result.val[p][2] = EnumeratedTags[Min(Contributors(bl_result.val[p][1]))]

\* C2 (amended): a lookup referenced by several enumerated features carries
\* the tag of the last of them in enumeration order; every later insert of
\* the same lookup index replaces the recorded feature tag.
C2_LastInserterAttributed ==
    Resolved =>
        \A p \in 1..Len(bl_result.val) :
            /\ Contributors(bl_result.val[p][1]) # {}
            /\ bl_result.val[p][2] = EnumeratedTags[Max(Contributors(bl_result.val[p][1]))]

\* A lookup shared by two enumerated features with different tags.
C2_Witness ==
    /\ Resolved
    /\ \E p \in 1..Len(bl_result.val) :
         LET c == Contributors(bl_result.val[p][1])
         IN /\ Cardinality(c) >= 2
            /\ EnumeratedTags[Min(c)] # EnumeratedTags[Max(c)]
            /\ bl_result.val[p][2] = EnumeratedTags[Max(c)]

\* C3: every lookup index occurs at most once in a resolved lookup list, so
\* one pass over the list applies a lookup shared by several features once.
C3_LookupIndexUnique ==
    Resolved =>
        \A p, q \in 1..Len(bl_result.val) :
            bl_result.val[p][1] = bl_result.val[q][1] => p = q

\* Two enumerated features reference the same lookup, which is listed once.
C3_Witness ==
    /\ Resolved
    /\ \E k \in {bl_result.val[p][1] : p \in 1..Len(bl_result.val)} :
         /\ Cardinality(Contributors(k)) >= 2
         /\ Cardinality({p \in 1..Len(bl_result.val) : bl_result.val[p][1] = k}) = 1

\* ------------------------------------------------------------------------
\* The vertical-alternates fallback
\* ------------------------------------------------------------------------

Declared(feature_tag) ==
    IsSome(find_langsys_feature(feature_list, langsys, feature_tag).val)

LookupsOf(feature_tag) ==
    LET r == find_langsys_feature(feature_list, langsys, feature_tag)
    IN IF r.ok /\ IsSome(r.val)
       THEN {Unwrap(r.val).lookup_indices[j] : j \in 1..Len(Unwrap(r.val).lookup_indices)}
       ELSE {}

ResolvedIndices == {bl_result.val[p][1] : p \in 1..Len(bl_result.val)}
TaggedWith(feature_tag) ==
    {bl_result.val[p][1] : p \in {q \in 1..Len(bl_result.val) : bl_result.val[q][2] = feature_tag}}

\* The lookups of the enabled features other than the vertical alternates.
OtherLookups ==
    UNION { LookupsOf(FEATURE_MASKS[n][2]) :
                n \in {q \in 1..Len(FEATURE_MASKS) :
                            /\ FEATURE_MASKS[q][1] \in bl_call.feature_masks
                            /\ FEATURE_MASKS[q][1] # "VRT2_OR_VERT"} }

VerticalCall ==
    /\ Resolved
    /\ bl_call.fn = "build_lookups_default"
    /\ "VRT2_OR_VERT" \in bl_call.feature_masks

\* C25: with the VRT2_OR_VERT bit enabled, a LangSys that declares VERT and
\* no VRT2 has exactly VERT's lookups in the resolved list, tagged vert, in
\* place of VRT2's; a LangSys that declares VRT2 has VRT2's lookups, tagged
\* vrt2, and VERT's are not added.
C25_VertStandsInForVrt2 ==
    VerticalCall =>
        /\ (~Declared("vrt2") /\ Declared("vert")) =>
              /\ TaggedWith("vert") = LookupsOf("vert")
              /\ TaggedWith("vrt2") = {}
              /\ ResolvedIndices = OtherLookups \cup LookupsOf("vert")
        /\ Declared("vrt2") =>
              /\ TaggedWith("vrt2") = LookupsOf("vrt2")
              /\ TaggedWith("vert") = {}
              /\ ResolvedIndices = OtherLookups \cup LookupsOf("vrt2")

\* VERT alone is declared and its lookups are resolved under the tag vert.
C25_VertUsed ==
    /\ VerticalCall
    /\ ~Declared("vrt2")
    /\ Declared("vert")
    /\ LookupsOf("vert") = {5, 7}
    /\ TaggedWith("vert") = {5, 7}

\* Both are declared with different lookups: VERT's lookup stays out.
C25_Vrt2Preferred ==
    /\ VerticalCall
    /\ LookupsOf("vrt2") = {5}
    /\ LookupsOf("vert") = {7}
    /\ ResolvedIndices = {5}

\* ========================================================================
\* SpecShape: gsub_apply_default on text of the Arabic script, one call per
\* step (gsub.rs:1092-1111, 1156-1158; arabic.rs:66-211)
\* ========================================================================

MaxShapeLen == 3

\* RawGlyph::from(arabic_glyph): the glyph without its ArabicData.
RawGlyph_from(arabic_glyph) == [arabic_glyph EXCEPT !.extra_data = "unit"]

\* unicode_joining_type::get_joining_type over the characters of the model.
get_joining_type(c) ==
    CASE c = "a" -> "DualJoining" [] c = "b" -> "RightJoining" [] c = "c" -> "DualJoining"
      [] c = "m" -> "Transparent" [] c = "ZWJ" -> "JoinCausing" [] OTHER -> "NonJoining"

\* raw_glyphs.iter_mut().map(ArabicGlyph::from).collect()
ArabicGlyphs_from(raw_glyphs) ==
    [n \in 1..Len(raw_glyphs) |->
        ArabicGlyph_from(raw_glyphs[n],
                         IF raw_glyphs[n].glyph_origin = Direct THEN "NonJoining"
                         ELSE get_joining_type(raw_glyphs[n].glyph_origin[2]))]

\* for (lookup_index, feature_tag) in lookups { gsub_apply_lookup(..)?; },
\* from position n; tagged: pred compares the glyph's tag with feature_tag.
RECURSIVE arabic_lookups(_, _, _, _, _)
arabic_lookups(lookups, n, tagged, arabic_glyphs, checks) ==
    IF n > Len(lookups) THEN [st |-> "ok", why |-> "", glyphs |-> arabic_glyphs]
    ELSE Let(gsub_apply_lookup(lookups[n][1], lookups[n][2], None, arabic_glyphs, 0,
                               Len(arabic_glyphs),
                               IF tagged THEN lookups[n][2] ELSE "any", checks),
             LAMBDA r : IF r.st # "ok" THEN [st |-> r.st, why |-> r.why, glyphs |-> r.glyphs]
                        ELSE arabic_lookups(lookups, n + 1, tagged, r.glyphs, checks))

\* One stage: build_lookups(gsub_table, langsys, feature_tags)?, then the loop.
arabic_stage(flist, ls, feature_tags, tagged, arabic_glyphs, checks) ==
    Let(build_lookups(flist, ls, feature_tags),
        LAMBDA b : IF ~b.ok THEN [st |-> "err", why |-> b.err, glyphs |-> arabic_glyphs]
                   ELSE arabic_lookups(b.val, 1, tagged, arabic_glyphs, checks))

\* How far gsub_apply_arabic came, and arabic_glyphs at that point.
Stage(st, why, stage, arabic_glyphs) ==
    [st |-> st, why |-> why, stage |-> stage, copy |-> arabic_glyphs]

\* The stages of gsub_apply_arabic on arabic_glyphs, up to the first `?`
\* that returns.
arabic_stages(flist, ls, arabic_glyphs, checks) ==
    Let(arabic_stage(flist, ls, <<"ccmp">>, FALSE, arabic_glyphs, checks),
        LAMBDA s1 :
    IF s1.st # "ok" THEN Stage(s1.st, s1.why, "ccmp", s1.glyphs)
    ELSE Let(arabic_stage(flist, ls, <<"isol", "fina", "medi", "init">>, TRUE,
                          joining_pass(s1.glyphs), checks),
             LAMBDA s2 :
         IF s2.st # "ok" THEN Stage(s2.st, s2.why, "forms", s2.glyphs)
         ELSE Let(arabic_stage(flist, ls, <<"rlig", "calt", "liga", "mset">>, FALSE,
                               s2.glyphs, checks),
                  LAMBDA s3 :
              IF s3.st # "ok" THEN Stage(s3.st, s3.why, "typographic", s3.glyphs)
              ELSE Stage("ok", "", "done", s3.glyphs))))

\* gsub_apply_arabic up to its return: the two early returns, then the
\* stages on the converted copy.
arabic_run(flist, slist, script_tag, lang_tag, raw_glyphs, checks) ==
    IF ~IsSome(find_script(slist, script_tag)) THEN Stage("ok", "", "script", <<>>)
    ELSE IF ~IsSome(find_langsys_or_default(Unwrap(find_script(slist, script_tag)), lang_tag))
    THEN Stage("ok", "", "langsys", <<>>)
    ELSE arabic_stages(flist,
                       Unwrap(find_langsys_or_default(Unwrap(find_script(slist, script_tag)),
                                                      lang_tag)),
                       ArabicGlyphs_from(raw_glyphs), checks)

\* The copy is written back wherever the run stopped.
gsub_apply_arabic_in_place(flist, slist, script_tag, lang_tag, raw_glyphs, checks) ==
    Let(arabic_run(flist, slist, script_tag, lang_tag, raw_glyphs, checks),
        LAMBDA r : [st |-> r.st, why |-> r.why, stage |-> r.stage, copy |-> r.copy,
                    raw |-> IF r.stage \in {"script", "langsys"} THEN raw_glyphs
                            ELSE [n \in 1..Len(r.copy) |-> RawGlyph_from(r.copy[n])]])

\* gsub_apply_arabic: raw: the caller's raw_glyphs when the call is over.
gsub_apply_arabic(flist, slist, script_tag, lang_tag, raw_glyphs, checks) ==
    Let(arabic_run(flist, slist, script_tag, lang_tag, raw_glyphs, checks),
        LAMBDA r : [st |-> r.st, why |-> r.why, stage |-> r.stage, copy |-> r.copy,
                    raw |-> IF r.stage = "done"
                            THEN [n \in 1..Len(r.copy) |-> RawGlyph_from(r.copy[n])]
                            ELSE raw_glyphs])

\* The Arabic pipeline runs only when the caller asked for ligatures.
gsub_apply_default_Arabic_masked(flist, slist, script_tag, lang_tag, feature_mask, num_glyphs, glyphs, checks) ==
    IF "LIGA" \notin feature_mask
    THEN [st |-> "ok", why |-> "", stage |-> "none", copy |-> <<>>, raw |-> glyphs,
          glyphs |-> replace_missing_glyphs(strip_joiners(glyphs), num_glyphs)]
    ELSE Let(gsub_apply_arabic(flist, slist, script_tag, lang_tag, glyphs, checks),
             LAMBDA r : [st |-> r.st, why |-> r.why, stage |-> r.stage, copy |-> r.copy,
                         raw |-> r.raw,
                         glyphs |-> IF r.st # "ok" THEN r.raw
                                    ELSE replace_missing_glyphs(strip_joiners(r.raw),
                                                                num_glyphs)])

\* gsub_apply_default for a script of ScriptType::Arabic:
\* gsub_apply_arabic(..)?, then strip_joiners and replace_missing_glyphs.
gsub_apply_default_Arabic(flist, slist, script_tag, lang_tag, feature_mask, num_glyphs, glyphs, checks) ==
    Let(gsub_apply_arabic(flist, slist, script_tag, lang_tag, glyphs, checks),
        LAMBDA r : [st |-> r.st, why |-> r.why, stage |-> r.stage, copy |-> r.copy,
                    raw |-> r.raw,
                    glyphs |-> IF r.st # "ok" THEN r.raw
                               ELSE replace_missing_glyphs(strip_joiners(r.raw), num_glyphs)])

\* Features 0..4 of the font: ccmp ('c' after 'b' decomposes), init (a -> 5),
\* fina (5 -> 6, the joiners' glyphs -> 7), liga (a b c, a b) and rlig (a
\* chaining context on 'b' that exceeds the recursion limit).
ShapeFeatureList ==
    << [feature_tag |-> "ccmp", lookup_indices |-> <<9>>],
       [feature_tag |-> "init", lookup_indices |-> <<0>>],
       [feature_tag |-> "fina", lookup_indices |-> <<14>>],
       [feature_tag |-> "liga", lookup_indices |-> <<3>>],
       [feature_tag |-> "rlig", lookup_indices |-> <<8>>] >>

\* "arab" with a default LangSys, a LangSys "URD " that has rlig too, and a
\* LangSys "BAD " naming a feature index the feature list does not have.
ShapeScripts ==
    << Script("arab", Some(<<0, 1, 2, 3>>),
              << <<"URD ", <<0, 1, 2, 3, 4>> >>, <<"BAD ", <<7>> >> >>) >>

\* "arab" without a default LangSys, next to a "DFLT" script that has one.
ShapeScriptsNoDefault ==
    << Script("arab", None, << <<"URD ", <<0, 1, 2, 3, 4>> >> >>),
       Script("DFLT", Some(<<0, 1, 2, 3>>), <<>>) >>

\* No "arab" script, only "DFLT".
ShapeScriptsOther ==
    << Script("DFLT", Some(<<0, 1, 2, 3>>), <<>>) >>

ShapeLangTags == {"ARA ", "URD ", "BAD "}
ShapeMasks == { {}, {"LIGA"}, {"LIGA", "CALT"}, {"CCMP", "RLIG", "FRAC"} }
ShapeAlphabet == {"a", "b", "c", "ZWJ"}

InitShape ==
    /\ BuildIdle
    /\ ApplyIdle
    /\ IterIdle
    /\ PassIdle
    /\ feature_list = ShapeFeatureList
    /\ script_list \in {ShapeScripts, ShapeScriptsNoDefault, ShapeScriptsOther}
    /\ glyph_vec = <<>>
    /\ overflow_checks \in BOOLEAN
    /\ gsub_cache = new_layout_cache
    /\ cache_before = new_layout_cache
    /\ last_call = [fn |-> "none"]
    /\ fresh = {}

\* One call of gsub_apply_default with script tag "arab" on a newly mapped
\* text; fresh: what the call yields under each of the feature masks.  The
\* Arabic pipeline keeps nothing from one call to the next, so a behaviour
\* is one call.
ShapeArabic ==
    /\ pc = "idle"
    /\ \E lang_tag \in ShapeLangTags, feature_mask \in ShapeMasks,
          text \in Texts(ShapeAlphabet, MaxShapeLen) :
          /\ get_script_type("arab") = "Arabic"
          /\ \E r \in {gsub_apply_default_Arabic(feature_list, script_list, "arab", lang_tag,
                                                 feature_mask, 16, MapGlyphs(text),
                                                 overflow_checks)} :
                /\ glyph_vec' = r.glyphs
                /\ pc' = Status(r.st)
                /\ reason' = r.why
                /\ last_call' = [fn |-> "gsub_apply_default", script_tag |-> "arab",
                                 lang_tag |-> lang_tag, feature_mask |-> feature_mask,
                                 text |-> text, stage |-> r.stage, copy |-> r.copy,
                                 raw |-> r.raw]
          /\ fresh' = { Let(gsub_apply_default_Arabic(feature_list, script_list, "arab",
                                                      lang_tag, mask, 16, MapGlyphs(text),
                                                      overflow_checks),
                            LAMBDA f : [st |-> Status(f.st), why |-> f.why,
                                        glyphs |-> f.glyphs]) : mask \in ShapeMasks }
    /\ UNCHANGED <<gsub_cache, cache_before, otherThanCache>>

NextShape == ShapeArabic

SpecShape == InitShape /\ [][NextShape]_vars

\* The last call was one of gsub_apply_arabic that returned early, or
\* returned an error.
ReturnedEarly == last_call.fn # "none" /\ last_call.stage \in {"script", "langsys"}
ReturnedError == last_call.fn # "none" /\ pc = "error"

\* C35: when gsub_apply_arabic returns early because the script or the
\* LangSys is not found, or returns an error from any stage, the caller's
\* raw_glyphs is as on entry: the stages work on a converted copy, which is
\* written back only after the last stage.
C35_RawGlyphsUntouchedUnlessAllStagesSucceed ==
    (ReturnedEarly \/ ReturnedError) => last_call.raw = MapGlyphs(last_call.text)

\* The last stage returned an error after earlier stages had changed the
\* copy, and the caller's glyphs are as on entry.
C35_ErrorAfterCopyChanged ==
    /\ ReturnedError
    /\ last_call.stage = "typographic"
    /\ [n \in 1..Len(last_call.copy) |-> RawGlyph_from(last_call.copy[n])]
          # MapGlyphs(last_call.text)
    /\ last_call.raw = MapGlyphs(last_call.text)

\* The script has no LangSys for the language and no default: an early
\* return that leaves a nonempty sequence alone.
C35_LangSysNotFound ==
    /\ ReturnedEarly
    /\ last_call.stage = "langsys"
    /\ last_call.text # <<>>
    /\ last_call.raw = MapGlyphs(last_call.text)

\* C36: for a script of the Arabic pipeline the outcome of gsub_apply_default
\* is the same under every feature_mask.
C36_ArabicIgnoresFeatureMask ==
    last_call.fn # "none" =>
        fresh = { [st |-> pc, why |-> reason, glyphs |-> glyph_vec] }

\* A call with the empty mask whose ligature lookup formed a ligature.
C36_LigatureWithEmptyMask ==
    /\ last_call.fn # "none"
    /\ last_call.feature_mask = {}
    /\ pc = "done"
    /\ \E n \in 1..Len(glyph_vec) : glyph_vec[n].glyph_index \in {Some(8), Some(9)}

\* ========================================================================
\* SpecCustom: gsub_apply_custom (gsub.rs:891-940), one gsub_apply_lookup
\* call per step
\* ========================================================================

MaxCustomLen == 3

\* find_alternate: the alternate of the first FeatureInfo with the tag.
find_alternate(features_list, feature_tag) ==
    IF \E n \in 1..Len(features_list) : features_list[n].feature_tag = feature_tag
    THEN features_list[CHOOSE n \in 1..Len(features_list) :
                          /\ features_list[n].feature_tag = feature_tag
                          /\ \A k \in 1..(n - 1) : features_list[k].feature_tag # feature_tag]
            .alternate
    ELSE None

\* Every lookup gets the whole sequence.
custom_window_whole(feature_tag, glyphs) == [start |-> 0, length |-> Len(glyphs)]

\* The arguments start and length of the gsub_apply_lookup call for a lookup
\* attributed to feature_tag.
custom_window(feature_tag, glyphs) ==
    IF feature_tag = "fina" /\ Len(glyphs) > 0
    THEN [start |-> Len(glyphs) - 1, length |-> 1]
    ELSE [start |-> 0, length |-> Len(glyphs)]

\* Features 0..5 of the font; lookup_indices are in the order the feature
\* tables list them.
CustomFeatureList ==
    << [feature_tag |-> "fina", lookup_indices |-> <<12, 1>>],
       [feature_tag |-> "liga", lookup_indices |-> <<3, 0>>],
       [feature_tag |-> "fina", lookup_indices |-> <<11, 9>>],
       [feature_tag |-> "liga", lookup_indices |-> <<1>>],
       [feature_tag |-> "fina", lookup_indices |-> <<16, 3>>],
       [feature_tag |-> "calt", lookup_indices |-> <<2>>] >>

\* "latn" with three LangSys records and no default LangSys.
CustomScripts ==
    << Script("latn", None,
              << <<"ENG ", <<0, 1, 5>> >>, <<"URD ", <<2, 3>> >>, <<"ARA ", <<4, 1>> >> >>) >>

CustomLangTags == {"ENG ", "URD ", "ARA ", "BAD "}

FeatureInfo(feature_tag, alternate) == [feature_tag |-> feature_tag, alternate |-> alternate]

CustomFeatureInfos ==
    { << FeatureInfo("fina", None) >>,
      << FeatureInfo("liga", None) >>,
      << FeatureInfo("fina", None), FeatureInfo("liga", None) >>,
      << FeatureInfo("liga", None), FeatureInfo("fina", None) >>,
      << FeatureInfo("calt", Some(1)), FeatureInfo("fina", None) >> }

InitCustom ==
    /\ BuildIdle
    /\ IterIdle
    /\ feature_list = CustomFeatureList
    /\ script_list = CustomScripts
    /\ gsub_cache = new_layout_cache
    /\ cache_before = new_layout_cache
    /\ \E lang_tag \in CustomLangTags, features_list \in CustomFeatureInfos :
          last_call = [fn |-> "gsub_apply_custom", script_tag |-> "latn",
                       lang_tag |-> lang_tag, features_list |-> features_list]
    /\ fresh = [st |-> "none"]
    /\ glyph_vec \in {MapGlyphs(t) : t \in Texts({"a", "b", "c"}, MaxCustomLen)}
    /\ overflow_checks \in BOOLEAN
    /\ pc = "enter"
    /\ lookup_list = <<>>
    /\ lookup_pos = 1
    /\ win_start = 0
    /\ win_length = 0
    /\ cursor = 0
    /\ reason = ""
    /\ max_depth = 0
    /\ entry_len = 0
    /\ entry_length = 0
    /\ ideal_length = 0
    /\ dist_before = 0
    /\ tail = 0
    /\ previous_i = 0
    /\ calls = <<>>
    /\ font_glyphs = 16
    /\ FracIdle

otherThanCustom ==
    <<buildvars, cachevars, passvars, overflow_checks, cursor, max_depth, entry_len,
      entry_length, ideal_length, dist_before, tail, prev_cursor, prev_length>>

\* The script and the LangSys are looked up and build_lookups_custom runs;
\* without script or LangSys there is no lookup to apply.
EnterCustom ==
    /\ pc = "enter"
    /\ \E ls \in {resolve_langsys(script_list, last_call.script_tag, last_call.lang_tag)} :
          \E b \in {IF IsSome(ls)
                    THEN build_lookups_custom(feature_list, Unwrap(ls),
                                              last_call.features_list)
                    ELSE Ok(<<>>)} :
             /\ pc' = IF b.ok THEN "custom" ELSE "error"
             /\ reason' = IF b.ok THEN "" ELSE b.err
             /\ lookup_list' = IF b.ok THEN b.val ELSE <<>>
    /\ UNCHANGED <<glyph_vec, lookup_pos, win_start, win_length, alternate_arg, prev_glyphs,
                   otherThanCustom>>

\* One round of the loop over the map: one gsub_apply_lookup call.
ApplyCustom ==
    /\ pc = "custom"
    /\ lookup_pos <= Len(lookup_list)
    /\ \E w \in {custom_window(lookup_list[lookup_pos][2], glyph_vec)},
          alternate \in {find_alternate(last_call.features_list, lookup_list[lookup_pos][2])} :
          \E r \in {gsub_apply_lookup(lookup_list[lookup_pos][1], lookup_list[lookup_pos][2],
                                       alternate, glyph_vec, w.start, w.length, "any",
                                       overflow_checks)} :
             /\ glyph_vec' = r.glyphs
             /\ pc' = IF r.st = "ok" THEN "custom" ELSE Status(r.st)
             /\ reason' = r.why
             /\ win_start' = w.start
             /\ win_length' = w.length
             /\ alternate_arg' = alternate
    /\ prev_glyphs' = glyph_vec
    /\ lookup_pos' = lookup_pos + 1
    /\ UNCHANGED <<lookup_list, otherThanCustom>>

\* replace_missing_glyphs(glyphs, num_glyphs); Ok(())
EndCustom ==
    /\ pc = "custom"
    /\ lookup_pos > Len(lookup_list)
    /\ glyph_vec' = replace_missing_glyphs(glyph_vec, font_glyphs)
    /\ pc' = "done"
    /\ UNCHANGED <<lookup_list, lookup_pos, win_start, win_length, alternate_arg, prev_glyphs,
                   reason, otherThanCustom>>

NextCustom == EnterCustom \/ ApplyCustom \/ EndCustom

SpecCustom == InitCustom /\ [][NextCustom]_vars

\* A gsub_apply_lookup call of the loop has returned, without a panic.
CustomApplied == lookup_pos > 1 /\ pc \in {"custom", "error"}

\* The tag the lookup of the last call is attributed to.
LastCustomTag == lookup_list[lookup_pos - 1][2]

\* C38: in gsub_apply_custom a lookup attributed to FINA is applied to the
\* last glyph of a nonempty sequence only (start = len - 1, length 1: the
\* glyphs before it stay as they were), every other lookup to the whole
\* current sequence; the lookups run in ascending lookup-index order, and on
\* an empty sequence no lookup changes anything.
C38_FinaOnLastGlyphOthersOnAll ==
    /\ \A k \in 1..(Len(lookup_list) - 1) : lookup_list[k][1] < lookup_list[k + 1][1]
    /\ CustomApplied =>
          /\ (LastCustomTag = "fina" /\ prev_glyphs # <<>>) =>
                /\ win_start = Len(prev_glyphs) - 1
                /\ win_length = 1
                /\ Len(glyph_vec) >= Len(prev_glyphs) - 1
                /\ SubSeq(glyph_vec, 1, Len(prev_glyphs) - 1)
                      = SubSeq(prev_glyphs, 1, Len(prev_glyphs) - 1)
          /\ (LastCustomTag # "fina" \/ prev_glyphs = <<>>) =>
                /\ win_start = 0
                /\ win_length = Len(prev_glyphs)
          /\ prev_glyphs = <<>> => glyph_vec = <<>>

\* A FINA lookup changed the last glyph of a sequence whose earlier glyphs
\* it covers too, and a lookup of another feature ran before it.
C38_FinaChangedLastGlyphOnly ==
    /\ CustomApplied
    /\ lookup_pos > 2
    /\ LastCustomTag = "fina"
    /\ lookup_list[lookup_pos - 2][2] # "fina"
    /\ Len(prev_glyphs) >= 2
    /\ glyph_vec # prev_glyphs
    /\ \E n \in 1..(Len(prev_glyphs) - 1) : prev_glyphs[n] = prev_glyphs[Len(prev_glyphs)]

\* Another lookup changed a glyph before the last one.
C38_OtherChangedEarlierGlyph ==
    /\ CustomApplied
    /\ LastCustomTag # "fina"
    /\ Len(prev_glyphs) >= 2
    /\ glyph_vec[1] # prev_glyphs[1]

\* The lookups ran on the empty sequence.
C38_EmptySequence ==
    /\ CustomApplied
    /\ lookup_pos > 2
    /\ prev_glyphs = <<>>
    /\ LastCustomTag = "fina"

====
